---- MODULE Spec2Model ----
(***************************************************************************)
(* Soulpher-Engine: frame lifecycle of BaseApp (run / init / update /      *)
(* render / destroy), the Direct3D wrapper objects it owns and the orbit   *)
(* camera, modelled as a state machine.                                    *)
(*                                                                         *)
(* Native objects (COM interfaces) are named by triples                    *)
(* <<owner, kind, index>>: owner 0 is BaseApp, owner a > 0 is the a-th     *)
(* actor created by BaseApp::init.  A wrapper field is named the same way  *)
(* and `ptr` maps a field to the object it points at (Null when nullptr),  *)
(* so a by-value copy of a wrapper is two fields holding one object.       *)
(***************************************************************************)
EXTENDS Integers, Sequences, FiniteSets, TLC

(***************************************************************************)
(* Bounds of the model.                                                    *)
(***************************************************************************)
MaxMeshes == 1
MaxFrames == 2
MaxMsgs == 1
MaxCamFrames == 18
MaxTexCalls == 2
MaxActorMeshes == 2
MaxSetMeshCalls == 2

(***************************************************************************)
(* HRESULT.  A failing native call returns a code of its own, so that      *)
(* "the same failure code" is observable.                                  *)
(***************************************************************************)
NoSite == <<0, "", 0>>
S_OK == [code |-> "S_OK", site |-> NoSite]
E_FAIL == [code |-> "E_FAIL", site |-> NoSite]
E_POINTER == [code |-> "E_POINTER", site |-> NoSite]
E_INVALIDARG == [code |-> "E_INVALIDARG", site |-> NoSite]
NativeError(site) == [code |-> "NATIVE", site |-> site]
FAILED(hr) == hr.code # "S_OK"
SUCCEEDED(hr) == hr.code = "S_OK"

Null == <<0, "null", 0>>

(***************************************************************************)
(* ExtensionType (Prerequisites.h) and the texture files BaseApp::init     *)
(* names.  A texture object is indexed by file and extension.              *)
(***************************************************************************)
DDS == 0
PNG == 1
JPG == 2
TexFiles == <<"axl_D", "axl_wq_D", "Default", "piedra">>
FileIndex(name) == CHOOSE i \in 1..Len(TexFiles) : TexFiles[i] = name
TexId(name, ext) == FileIndex(name) * 3 + ext

(***************************************************************************)
(* The world a handler works on: ptr (fields), rel (number of Release      *)
(* calls issued on each created object), log (events in program order),    *)
(* hr (status of the last operation).                                      *)
(***************************************************************************)
Ev(op, site, hr) == [op |-> op, site |-> site, hr |-> hr, slot |-> 0]
\* a pipeline call on the immediate context: what is bound, and to which slot
Call(op, site, slot) == [op |-> op, site |-> site, hr |-> S_OK, slot |-> slot]
Get(w, f) == IF f \in DOMAIN w.ptr THEN w.ptr[f] ELSE Null
SetPtr(w, f, o) == [w EXCEPT !.ptr = (f :> o) @@ w.ptr]
Note(w, op, site, hr) == [w EXCEPT !.log = Append(w.log, Ev(op, site, hr))]
WithHr(w, hr) == [w EXCEPT !.hr = hr]


\* A native creation call at `site`: fails with the site's own code when the
\* environment makes it fail, otherwise creates object `site` into `field`.
NativeCreateAs(w, F, site, field, obj) ==
    IF site \in F
    THEN WithHr(Note(w, "createFail", site, NativeError(site)), NativeError(site))
    ELSE [w EXCEPT !.ptr = (field :> obj) @@ w.ptr,
                   !.rel = (obj :> 0) @@ w.rel,
                   !.log = Append(w.log, Ev("create", obj, S_OK)),
                   !.hr = S_OK]
NativeCreate(w, F, site, field) == NativeCreateAs(w, F, site, field, site)

\* A creation call that follows `if (FAILED(hr)) return hr;`: it runs only
\* while the status of the enclosing function is a success.
TryCreateAs(w, F, site, field, obj) ==
    IF FAILED(w.hr) THEN w ELSE NativeCreateAs(w, F, site, field, obj)
TryCreate(w, F, site, field) == TryCreateAs(w, F, site, field, site)

\* x->Release() on a pointer known to be non-null, the field keeps its value.
Release(w, field) ==
    LET o == Get(w, field) IN
    [w EXCEPT !.rel = (o :> (w.rel[o] + 1)) @@ w.rel,
              !.log = Append(w.log, Ev("release", o, S_OK))]

\* A local variable going out of scope: the pointer is forgotten, no Release.
Drop(w, field) == SetPtr(w, field, Null)

\* SAFE_RELEASE(x): if (x != nullptr) x->Release(); x = nullptr;
SAFE_RELEASE(w, field) ==
    LET o == Get(w, field) IN
    IF o # Null
    THEN [w EXCEPT !.ptr = (field :> Null) @@ w.ptr,
                   !.rel = (o :> (w.rel[o] + 1)) @@ w.rel,
                   !.log = Append(w.log, Ev("release", o, S_OK))]
    ELSE w

\* UserInterface fields (UserInterface.h) and the ImGui context.
NewUI == [ctx |-> FALSE, m_imguiInitialized |-> FALSE, selectedActorIndex |-> -1,
          show_exit_popup |-> FALSE, popupOpen |-> FALSE]

\* The state of a BaseApp right after construction.
EmptyWorld == [ptr |-> <<>>, rel |-> <<>>, log |-> <<>>, hr |-> S_OK, desc |-> <<>>,
               actors |-> <<>>, m_actors |-> <<>>, ui |-> NewUI]

(***************************************************************************)
(* Fields of BaseApp's wrappers (owner 0).                                 *)
(***************************************************************************)
fDevice == <<0, "m_device", 0>>
fContext == <<0, "m_deviceContext", 0>>
fDxgiDevice == <<0, "m_dxgiDevice", 0>>
fDxgiAdapter == <<0, "m_dxgiAdapter", 0>>
fDxgiFactory == <<0, "m_dxgiFactory", 0>>
fSwapChain == <<0, "m_swapChain", 0>>
fBackBuffer == <<0, "m_backBuffer.m_texture", 0>>
fRTV == <<0, "m_renderTargetView", 0>>
fDepthTex == <<0, "m_depthStencil.m_texture", 0>>
fDepthSRV == <<0, "m_depthStencil.m_textureFromImg", 0>>
fDSV == <<0, "m_depthStencilView", 0>>
fViewCB == <<0, "m_neverChanges", 0>>
fProjCB == <<0, "m_changeOnResize", 0>>
fPlaneTexSRV == <<0, "m_PlaneTexture.m_textureFromImg", 0>>
fPlaneTexTex == <<0, "m_PlaneTexture.m_texture", 0>>

\* Fields of a ShaderProgram owned by o (BaseApp::m_shaderProgram for o = 0,
\* Actor::m_shaderShadow for an actor).
fVS(o) == <<o, "m_VertexShader", 0>>
fPS(o) == <<o, "m_PixelShader", 0>>
fLayout(o) == <<o, "m_inputLayout", 0>>
fVSData(o) == <<o, "m_vertexShaderData", 0>>
fPSData(o) == <<o, "m_pixelShaderData", 0>>

(***************************************************************************)
(* SwapChain::init                                                         *)
(***************************************************************************)
lBB == <<0, "local.bb", 0>>
DriverTypes == <<"HARDWARE", "WARP", "REFERENCE">>
FeatureLevels == <<"11_0", "10_1", "10_0">>
CreateDeviceSite(i) == <<0, "D3D11CreateDevice", i>>

\* The driver-type loop: the first attempt that succeeds creates the device
\* and its immediate context and breaks; hr is the last attempt's status.
\* one call of D3D11CreateDevice: the driver type and the feature levels it
\* is given, and its status
DeviceAttempt(types, i, hr) ==
    [op |-> "D3D11CreateDevice", site |-> CreateDeviceSite(i), hr |-> hr, slot |-> 0,
     driver |-> types[i], levels |-> FeatureLevels]

\* the loop over `types` from index i on
RECURSIVE DriverLoop(_, _, _, _)
DriverLoop(w, F, types, i) ==
    IF i > Len(types) THEN w
    ELSE IF CreateDeviceSite(i) \in F
         THEN DriverLoop(
                  [w EXCEPT !.log = Append(w.log, DeviceAttempt(types, i, NativeError(CreateDeviceSite(i)))),
                            !.hr = NativeError(CreateDeviceSite(i))], F, types, i + 1)
         ELSE [w EXCEPT !.ptr = (fDevice :> fDevice) @@ (fContext :> fContext) @@ w.ptr,
                        !.rel = (fDevice :> 0) @@ (fContext :> 0) @@ w.rel,
                        !.log = Append(w.log, DeviceAttempt(types, i, S_OK)),
                        !.hr = S_OK]

CreateDeviceLoop_WarpFirst(w, F, i) == DriverLoop(w, F, <<"WARP", "HARDWARE", "REFERENCE">>, i)
CreateDeviceLoop(w, F, i) == DriverLoop(w, F, DriverTypes, i)

\* lines 152-157: a previous back buffer is released, then backBuffer.m_texture = bb
AssignBackBuffer(w) ==
    IF FAILED(w.hr) THEN w
    ELSE WithHr(Drop(SetPtr(SAFE_RELEASE(w, fBackBuffer), fBackBuffer, Get(w, lBB)), lBB), S_OK)

SwapChainInit(w, F, hWnd) ==
    IF ~hWnd THEN WithHr(w, E_POINTER)
    ELSE AssignBackBuffer(
           TryCreateAs(
             TryCreate(
               TryCreate(
                 TryCreate(
                   TryCreate(CreateDeviceLoop(w, F, 1), F, fDxgiDevice, fDxgiDevice),
                   F, fDxgiAdapter, fDxgiAdapter),
                 F, fDxgiFactory, fDxgiFactory),
               F, fSwapChain, fSwapChain),
             F, <<0, "GetBuffer", 0>>, lBB, fBackBuffer))

(***************************************************************************)
(* RenderTargetView::init(device, backBuffer, format)                      *)
(***************************************************************************)
RTVSite(i) == <<0, "CreateRenderTargetView", i>>
\* the fallback: a second attempt that lets D3D infer the description
RenderTargetViewRetry(w, F) ==
    IF FAILED(w.hr) THEN NativeCreateAs(w, F, RTVSite(1), fRTV, fRTV) ELSE w

RenderTargetViewInit(w, F) ==
    IF Get(w, fDevice) = Null THEN WithHr(w, E_POINTER)
    ELSE IF Get(w, fBackBuffer) = Null THEN WithHr(w, E_POINTER)
    ELSE RenderTargetViewRetry(NativeCreateAs(w, F, RTVSite(0), fRTV, fRTV), F)

(***************************************************************************)
(* Texture::init(device, width, height, format, bindFlags, ...)            *)
(***************************************************************************)
TextureInitSized(w, F, width, height) ==
    IF Get(w, fDevice) = Null THEN WithHr(w, E_POINTER)
    ELSE IF width = 0 \/ height = 0 THEN WithHr(w, E_INVALIDARG)
    ELSE NativeCreate(SAFE_RELEASE(SAFE_RELEASE(w, fDepthTex), fDepthSRV),
                      F, fDepthTex, fDepthTex)

(***************************************************************************)
(* DepthStencilView::init                                                  *)
(***************************************************************************)
DepthStencilViewInit(w, F) ==
    IF Get(w, fDevice) = Null THEN WithHr(w, E_POINTER)
    ELSE IF Get(w, fDepthTex) = Null THEN WithHr(w, E_POINTER)
    ELSE NativeCreate(w, F, fDSV, fDSV)

(***************************************************************************)
(* Viewport::init(window)                                                  *)
(***************************************************************************)
ViewportInit(w, hWnd, width, height) ==
    IF ~hWnd THEN WithHr(w, E_POINTER)
    ELSE IF width = 0 \/ height = 0 THEN WithHr(w, E_INVALIDARG)
    ELSE WithHr(Note(w, "viewportSet", NoSite, S_OK), S_OK)

(***************************************************************************)
(* Buffer::init(device, ByteWidth) and Buffer::createBuffer                *)
(***************************************************************************)
BufferCreateBuffer(w, F, field, obj) ==
    IF Get(w, fDevice) = Null THEN WithHr(w, E_POINTER)
    ELSE NativeCreateAs(w, F, obj, field, obj)

BufferInitConstant(w, F, field, ByteWidth) ==
    IF Get(w, fDevice) = Null THEN WithHr(w, E_POINTER)
    ELSE IF ByteWidth = 0 THEN WithHr(w, E_INVALIDARG)
    ELSE BufferCreateBuffer(w, F, field, field)

(***************************************************************************)
(* Buffer::init(device, mesh, bindFlag).  A mesh is                        *)
(* [nVertex, nIndex, numIndex]: the sizes of m_vertex and m_index and the  *)
(* m_numIndex field.                                                       *)
(***************************************************************************)
D3D11_BIND_VERTEX_BUFFER == 1
D3D11_BIND_INDEX_BUFFER == 2
BufferInitMesh(w, F, field, obj, mesh, bindFlag) ==
    IF Get(w, fDevice) = Null THEN WithHr(w, E_POINTER)
    ELSE IF bindFlag = D3D11_BIND_VERTEX_BUFFER /\ mesh.nVertex = 0
         THEN WithHr(w, E_INVALIDARG)
    ELSE IF bindFlag = D3D11_BIND_INDEX_BUFFER /\ mesh.nIndex = 0
         THEN WithHr(w, E_INVALIDARG)
    ELSE BufferCreateBuffer(w, F, field, obj)

(***************************************************************************)
(* ShaderProgram                                                           *)
(***************************************************************************)
VERTEX_SHADER == 0
PIXEL_SHADER == 1
lShaderData(o) == <<o, "local.shaderData", 0>>
CompileSite(o, type) == <<o, "CompileShaderFromFile", type>>
BlobObj(o, type) == <<o, "ID3DBlob", type>>

ShaderField(o, type) == IF type = PIXEL_SHADER THEN fPS(o) ELSE fVS(o)
DataField(o, type) == IF type = PIXEL_SHADER THEN fPSData(o) ELSE fVSData(o)

\* ShaderProgram::CreateShader(device, type)
\* lines 148-165: on failure the blob is released; otherwise it is kept in
\* m_vertexShaderData / m_pixelShaderData
StoreShaderData(w, o, type) ==
    IF FAILED(w.hr)
    THEN Drop(Release(w, lShaderData(o)), lShaderData(o))
    ELSE WithHr(Drop(SetPtr(SAFE_RELEASE(w, DataField(o, type)), DataField(o, type),
                            Get(w, lShaderData(o))), lShaderData(o)), S_OK)

\* lines 135-146: CreatePixelShader / CreateVertexShader from the blob
CreateShaderObject(w, F, o, type) ==
    IF FAILED(w.hr) THEN w
    ELSE StoreShaderData(NativeCreate(w, F, ShaderField(o, type), ShaderField(o, type)), o, type)

CreateShader(w, F, o, type, fileName) ==
    IF Get(w, fDevice) = Null THEN WithHr(w, E_POINTER)
    ELSE IF fileName = "" THEN WithHr(w, E_INVALIDARG)
    ELSE CreateShaderObject(
           NativeCreateAs(w, F, CompileSite(o, type), lShaderData(o), BlobObj(o, type)),
           F, o, type)

\* InputLayout::init
InputLayoutInit(w, F, o, layoutEmpty, vsData) ==
    IF layoutEmpty THEN WithHr(w, E_INVALIDARG)
    ELSE IF vsData = Null THEN WithHr(w, E_POINTER)
    ELSE NativeCreate(w, F, fLayout(o), fLayout(o))

\* ShaderProgram::CreateInputLayout
CreateInputLayout(w, F, o, layoutEmpty) ==
    IF Get(w, fVSData(o)) = Null THEN WithHr(w, E_POINTER)
    ELSE IF Get(w, fDevice) = Null THEN WithHr(w, E_POINTER)
    ELSE IF layoutEmpty THEN WithHr(w, E_INVALIDARG)
    ELSE SAFE_RELEASE(InputLayoutInit(w, F, o, layoutEmpty, Get(w, fVSData(o))), fVSData(o))

\* ShaderProgram::init(device, fileName, Layout)
ShaderProgramInitLayout(w, F, o, layoutEmpty) ==
    IF FAILED(w.hr) THEN w ELSE CreateInputLayout(w, F, o, layoutEmpty)
ShaderProgramInitPixel(w, F, o, fileName) ==
    IF FAILED(w.hr) THEN w ELSE CreateShader(w, F, o, PIXEL_SHADER, fileName)

ShaderProgramInit(w, F, o, fileName, layoutEmpty) ==
    IF Get(w, fDevice) = Null THEN WithHr(w, E_POINTER)
    ELSE IF fileName = "" THEN WithHr(w, E_INVALIDARG)
    ELSE IF layoutEmpty THEN WithHr(w, E_INVALIDARG)
    ELSE ShaderProgramInitPixel(
           ShaderProgramInitLayout(CreateShader(w, F, o, VERTEX_SHADER, fileName),
                                   F, o, layoutEmpty),
           F, o, fileName)

\* ShaderProgram::CreateShader(device, type, fileName): the status of the
\* inner CreateShader is discarded and S_OK is returned.
CreateShaderFromFile(w, F, o, type, fileName) ==
    IF Get(w, fDevice) = Null THEN WithHr(w, E_POINTER)
    ELSE IF fileName = "" THEN WithHr(w, E_INVALIDARG)
    ELSE Note(WithHr(CreateShader(w, F, o, type, fileName), S_OK),
              "ShaderProgram::CreateShader", <<o, fileName, type>>, S_OK)

\* ShaderProgram::destroy
ShaderProgramDestroy(w, o) ==
    LET w1 == SAFE_RELEASE(w, fVS(o))
        w2 == SAFE_RELEASE(w1, fLayout(o))
        w3 == SAFE_RELEASE(w2, fPS(o))
        w4 == SAFE_RELEASE(w3, fVSData(o))
    IN SAFE_RELEASE(w4, fPSData(o))

(***************************************************************************)
(* Texture::init(device, textureName, extensionType) on the wrapper whose  *)
(* fields are srv (m_textureFromImg) and tex (m_texture).  `files` is the  *)
(* set of <<name, ext>> image files that exist and decode.                 *)
(***************************************************************************)
SrvObj(o, name, ext) == <<o, "ID3D11ShaderResourceView", TexId(name, ext)>>
StagingObj(o, name, ext) == <<o, "ID3D11Texture2D", TexId(name, ext)>>
TexAttempt(o, name, ext) == <<o, name, ext>>

\* lines 101-108: the view of the staging texture, which is then released
TexturePNGView(w, F, srv, tex, name, ext) ==
    IF FAILED(w.hr) THEN w
    ELSE SAFE_RELEASE(NativeCreate(w, F, SrvObj(srv[1], name, ext), srv), tex)

\* lines 39-124: the switch on the extension, after the old handles are released
TextureLoad(w, F, files, srv, tex, name, ext) ==
    IF ext = DDS THEN
        IF <<name, ext>> \notin files
        THEN WithHr(w, NativeError(SrvObj(srv[1], name, ext)))
        ELSE NativeCreate(w, F, SrvObj(srv[1], name, ext), srv)
    ELSE IF ext = PNG THEN
        IF <<name, ext>> \notin files THEN WithHr(w, E_FAIL)
        ELSE TexturePNGView(NativeCreate(w, F, StagingObj(srv[1], name, ext), tex),
                            F, srv, tex, name, ext)
    ELSE WithHr(w, E_INVALIDARG)

TextureInitFileBody(w, F, files, srv, tex, name, ext) ==
    IF Get(w, fDevice) = Null THEN WithHr(w, E_POINTER)
    ELSE IF name = "" THEN WithHr(w, E_INVALIDARG)
    ELSE TextureLoad(SAFE_RELEASE(SAFE_RELEASE(w, srv), tex), F, files, srv, tex, name, ext)

Returned(w, op, site) == Note(w, op, site, w.hr)
TextureInitFile(w, F, files, srv, tex, name, ext) ==
    Returned(TextureInitFileBody(w, F, files, srv, tex, name, ext),
             "Texture::init", TexAttempt(srv[1], name, ext))

\* Texture::destroy
TextureDestroy(w, srv, tex) == SAFE_RELEASE(SAFE_RELEASE(w, srv), tex)

(***************************************************************************)
(* SamplerState::init, Rasterizer::init, BlendState::init,                 *)
(* DepthStencilState::init: one native state object each.                  *)
(***************************************************************************)
StateInit(w, F, field) ==
    IF Get(w, fDevice) = Null THEN WithHr(w, E_POINTER)
    ELSE NativeCreate(w, F, field, field)

(***************************************************************************)
(* Actor                                                                   *)
(***************************************************************************)
fModelBuffer(a) == <<a, "m_modelBuffer", 0>>
fSampler(a) == <<a, "m_sampler", 0>>
fRasterizer(a) == <<a, "m_rasterizer", 0>>
fBlend(a) == <<a, "m_blendstate", 0>>
fShaderBuffer(a) == <<a, "m_shaderBuffer", 0>>
fShadowBlend(a) == <<a, "m_shadowBlendState", 0>>
fShadowDSS(a) == <<a, "m_shadowDepthStencilState", 0>>
fVB(a, i) == <<a, "m_vertexBuffers", i>>
fIB(a, i) == <<a, "m_indexBuffers", i>>
fTexSRV(a, i) == <<a, "m_textures.m_textureFromImg", i>>
fTexTex(a, i) == <<a, "m_textures.m_texture", i>>
lVB(a) == <<a, "local.vb", 0>>
lIB(a) == <<a, "local.ib", 0>>
VBObj(a, i) == <<a, "ID3D11Buffer.vertex", i>>
IBObj(a, i) == <<a, "ID3D11Buffer.index", i>>

(***************************************************************************)
(* DepthStencilState::init(device, enableDepth, enableStencil): the        *)
(* D3D11_DEPTH_STENCIL_DESC the state object is created from is kept in    *)
(* desc.                                                                   *)
(***************************************************************************)
D3D11_DEPTH_WRITE_MASK_ZERO == 0
D3D11_DEPTH_WRITE_MASK_ALL == 1
\* the description a successful creation call was given
Described(w, obj, d) == IF FAILED(w.hr) THEN w ELSE [w EXCEPT !.desc = (obj :> d) @@ w.desc]
DepthStencilStateInit(w, F, field, enableDepth, enableStencil) ==
    IF Get(w, fDevice) = Null THEN WithHr(w, E_POINTER)
    ELSE Described(NativeCreate(w, F, field, field), field,
                   [DepthEnable |-> enableDepth,
                    DepthWriteMask |-> D3D11_DEPTH_WRITE_MASK_ALL,
                    DepthFunc |-> "D3D11_COMPARISON_LESS",
                    StencilEnable |-> enableStencil])

\* Actor.h: member initialisers
NewActor == [meshes |-> <<>>, nVB |-> 0, nIB |-> 0, nTex |-> 0,
             castShadow |-> TRUE, m_receiveShadow |-> TRUE]

SizeofCBChangesEveryFrame == 80

\* Actor::Actor(Device&): every status is logged and then dropped.
ActorConstruct(w, F, a) ==
    LET w0 == [w EXCEPT !.actors = (a :> NewActor) @@ w.actors]
        w1 == BufferInitConstant(w0, F, fModelBuffer(a), SizeofCBChangesEveryFrame)
        w2 == StateInit(w1, F, fSampler(a))
        w3 == StateInit(w2, F, fRasterizer(a))
        w4 == StateInit(w3, F, fBlend(a))
        w5 == CreateShaderFromFile(w4, F, a, PIXEL_SHADER, "HybridEngine.fx")
        w6 == BufferInitConstant(w5, F, fShaderBuffer(a), SizeofCBChangesEveryFrame)
        w7 == StateInit(w6, F, fShadowBlend(a))
        w8 == DepthStencilStateInit(w7, F, fShadowDSS(a), TRUE, FALSE)
    IN WithHr(w8, S_OK)

\* Actor::setMesh: one pass of the loop body for mesh i of m_meshes.
\* m_vertexBuffers.push_back(vb) / m_indexBuffers.push_back(ib) on success
PushBackVB(w, a) ==
    IF FAILED(w.hr) THEN w
    ELSE [SetPtr(w, fVB(a, w.actors[a].nVB + 1), Get(w, lVB(a)))
             EXCEPT !.actors[a].nVB = @ + 1]
PushBackIB(w, a) ==
    IF FAILED(w.hr) THEN w
    ELSE [SetPtr(w, fIB(a, w.actors[a].nIB + 1), Get(w, lIB(a)))
             EXCEPT !.actors[a].nIB = @ + 1]
SetMeshVB(w, F, a, i) ==
    PushBackVB(BufferInitMesh(SetPtr(w, lVB(a), Null), F, lVB(a), VBObj(a, i),
                              w.actors[a].meshes[i], D3D11_BIND_VERTEX_BUFFER), a)
SetMeshIB(w, F, a, i) ==
    PushBackIB(BufferInitMesh(SetPtr(w, lIB(a), Null), F, lIB(a), IBObj(a, i),
                              w.actors[a].meshes[i], D3D11_BIND_INDEX_BUFFER), a)
SetMeshOne(w, F, a, i) ==
    Drop(Drop(SetMeshIB(SetMeshVB(w, F, a, i), F, a, i), lVB(a)), lIB(a))

RECURSIVE SetMeshLoop(_, _, _, _)
SetMeshLoop(w, F, a, i) ==
    IF i > Len(w.actors[a].meshes) THEN w
    ELSE SetMeshLoop(SetMeshOne(w, F, a, i), F, a, i + 1)

\* Actor::setMesh(device, meshes)
ActorSetMesh(w, F, a, meshes) ==
    SetMeshLoop([w EXCEPT !.actors[a].meshes = meshes], F, a, 1)

\* Actor::setTextures(textures): m_textures = textures, a by-value copy of
\* each Texture wrapper (srcs is the list of <<srv field, tex field>>).
RECURSIVE CopyTextures(_, _, _, _)
CopyTextures(w, a, srcs, i) ==
    IF i > Len(srcs) THEN w
    ELSE CopyTextures(SetPtr(SetPtr(w, fTexSRV(a, i), Get(w, srcs[i][1])),
                             fTexTex(a, i), Get(w, srcs[i][2])), a, srcs, i + 1)
ActorSetTextures(w, a, srcs) ==
    [CopyTextures(w, a, srcs, 1) EXCEPT !.actors[a].nTex = Len(srcs)]

\* Actor::destroy
RECURSIVE ReleaseEach(_, _, _, _)
ReleaseEach(w, a, kind, i) ==
    IF i = 0 THEN w
    ELSE IF kind = "vb" THEN SAFE_RELEASE(ReleaseEach(w, a, kind, i - 1), fVB(a, i))
    ELSE IF kind = "ib" THEN SAFE_RELEASE(ReleaseEach(w, a, kind, i - 1), fIB(a, i))
    ELSE TextureDestroy(ReleaseEach(w, a, kind, i - 1), fTexSRV(a, i), fTexTex(a, i))

ReleaseActorStates(w, a) ==
    SAFE_RELEASE(SAFE_RELEASE(SAFE_RELEASE(SAFE_RELEASE(w,
        fModelBuffer(a)), fRasterizer(a)), fBlend(a)), fSampler(a))
ReleaseTextures(w, a) == ReleaseEach(w, a, "tex", w.actors[a].nTex)
ReleaseIBs(w, a) == ReleaseEach(w, a, "ib", w.actors[a].nIB)
ReleaseVBs(w, a) == ReleaseEach(w, a, "vb", w.actors[a].nVB)
ActorDestroy(w, a) ==
    ReleaseActorStates(ReleaseTextures(ReleaseIBs(ReleaseVBs(w, a), a), a), a)

(***************************************************************************)
(* UserInterface::init / destroy                                           *)
(***************************************************************************)
UserInterfaceInit(w, window, device, deviceContext) ==
    [[w EXCEPT !.log = Append(w.log, [op |-> "ImGuiInit", site |-> NoSite, hr |-> S_OK,
                                      slot |-> 0, window |-> window, device |-> device,
                                      deviceContext |-> deviceContext])]
        EXCEPT !.ui = [ctx |-> TRUE, m_imguiInitialized |-> TRUE,
                       selectedActorIndex |-> 0,
                       show_exit_popup |-> w.ui.show_exit_popup,
                       popupOpen |-> w.ui.popupOpen]]

\* UserInterface::destroy without the test of line 71
UserInterfaceDestroy_Unguarded(w) ==
    [Note(w, "ImGuiShutdown", NoSite, S_OK)
        EXCEPT !.ui.ctx = FALSE, !.ui.m_imguiInitialized = FALSE]
UserInterfaceDestroy(w) ==
    IF ~w.ui.m_imguiInitialized \/ ~w.ui.ctx THEN w
    ELSE [Note(w, "ImGuiShutdown", NoSite, S_OK)
             EXCEPT !.ui.ctx = FALSE, !.ui.m_imguiInitialized = FALSE]

(***************************************************************************)
(* BaseApp::init.  The environment of one call is                          *)
(*   F        the native creation calls that fail,                         *)
(*   files    the image files that exist,                                  *)
(*   fbxOk    the result of ModelLoader::LoadFBXModel,                     *)
(*   meshes   the meshes the loader then holds,                            *)
(*   hWnd, width, height   the Window fields set by Window::init.          *)
(* Every step that ran is recorded with its status ("initStep").           *)
(***************************************************************************)
SizeofCBNeverChanges == 64
SizeofCBChangeOnResize == 64
Martis == 1
Plane == 2
lDiffuseSRV == <<Martis, "local.diffuse.m_textureFromImg", 0>>
lDiffuseTex == <<Martis, "local.diffuse.m_texture", 0>>
lFallbackSRV == <<Martis, "local.fallback.m_textureFromImg", 0>>
lFallbackTex == <<Martis, "local.fallback.m_texture", 0>>
PlaneMesh == [nVertex |-> 4, nIndex |-> 6, numIndex |-> 6]

Step(w, name) == Note(w, "initStep", <<0, name, 0>>, w.hr)

\* Lines 172-201: the diffuse texture of the FBX actor.
\* lines 186-200: the fallback texture "Default" as DDS, then as PNG
MartisFallbackSet(w) ==
    IF SUCCEEDED(w.hr)
    THEN ActorSetTextures(w, Martis, << <<lFallbackSRV, lFallbackTex>> >>)
    ELSE ActorSetTextures(Note(w, "ERROR", <<Martis, "No diffuse texture", 0>>, w.hr),
                          Martis, << >>)
MartisFallbackPNG(w, in) ==
    IF SUCCEEDED(w.hr) THEN w
    ELSE TextureInitFile(w, in.F, in.files, lFallbackSRV, lFallbackTex, "Default", PNG)
MartisFallback(w, in) ==
    MartisFallbackSet(
      MartisFallbackPNG(
        TextureInitFile(w, in.F, in.files, lFallbackSRV, lFallbackTex, "Default", DDS), in))
\* lines 182-201
MartisDiffuseSet(w, in) ==
    IF SUCCEEDED(w.hr)
    THEN ActorSetTextures(w, Martis, << <<lDiffuseSRV, lDiffuseTex>> >>)
    ELSE MartisFallback(w, in)
\* the alternate file name attempted whatever the primary attempt returned
MartisAlternate_Always(w, in) ==
    TextureInitFile(w, in.F, in.files, lDiffuseSRV, lDiffuseTex, "axl_wq_D", PNG)
\* lines 177-180: the alternate file name
MartisAlternate(w, in) ==
    IF FAILED(w.hr)
    THEN TextureInitFile(w, in.F, in.files, lDiffuseSRV, lDiffuseTex, "axl_wq_D", PNG)
    ELSE w
MartisTextures(w, in) ==
    MartisDiffuseSet(
      MartisAlternate(
        TextureInitFile(w, in.F, in.files, lDiffuseSRV, lDiffuseTex, "axl_D", PNG), in), in)

\* Lines 243-258: the floor texture.
PlaneDefaultPNG(w, in) ==
    IF FAILED(w.hr)
    THEN TextureInitFile(w, in.F, in.files, fPlaneTexSRV, fPlaneTexTex, "Default", PNG)
    ELSE w
PlaneDefault(w, in) ==
    IF FAILED(w.hr)
    THEN PlaneDefaultPNG(
           TextureInitFile(w, in.F, in.files, fPlaneTexSRV, fPlaneTexTex, "Default", DDS), in)
    ELSE w
PlaneAlternate(w, in) ==
    IF FAILED(w.hr)
    THEN TextureInitFile(w, in.F, in.files, fPlaneTexSRV, fPlaneTexTex, "piedra", PNG)
    ELSE w
PlaneTextures(w, in) ==
    ActorSetTextures(
      PlaneDefault(
        PlaneAlternate(
          TextureInitFile(w, in.F, in.files, fPlaneTexSRV, fPlaneTexTex, "piedra", JPG), in),
        in),
      Plane, << <<fPlaneTexSRV, fPlaneTexTex>> >>)

SetCast(w, a, cast, receive) ==
    [w EXCEPT !.actors[a].castShadow = cast, !.actors[a].m_receiveShadow = receive]

\* Lines 152-212
\* lines 170-211, after the FBX file was loaded
\* the actor registered only when a diffuse texture was found
MartisRegister_FailOnTexture(w) ==
    IF FAILED(w.hr) THEN w
    ELSE WithHr([SetCast(Drop(Drop(Drop(Drop(w, lDiffuseSRV), lDiffuseTex), lFallbackSRV),
                              lFallbackTex),
                         Martis, FALSE, w.actors[Martis].m_receiveShadow)
                    EXCEPT !.m_actors = Append(@, Martis)], S_OK)
MartisRegister(w) ==
    WithHr([SetCast(Drop(Drop(Drop(Drop(w, lDiffuseSRV), lDiffuseTex), lFallbackSRV),
                         lFallbackTex),
                    Martis, FALSE, w.actors[Martis].m_receiveShadow)
               EXCEPT !.m_actors = Append(@, Martis)], S_OK)
MartisLoad(w, in) ==
    IF ~in.fbxOk \/ in.meshes = << >> THEN Step(WithHr(w, E_FAIL), "LoadFBXModel")
    ELSE MartisRegister(
           MartisTextures(ActorSetMesh(Step(WithHr(w, S_OK), "LoadFBXModel"),
                                       in.F, Martis, in.meshes), in))
InitMartis(w, in) == MartisLoad(ActorConstruct(w, in.F, Martis), in)

\* Lines 214-271
\* the floor registered with the constructor's castShadow
InitPlane_DefaultCast(w, in) ==
    WithHr([PlaneTextures(ActorSetMesh(ActorConstruct(w, in.F, Plane),
                                       in.F, Plane, <<PlaneMesh>>), in)
               EXCEPT !.m_actors = Append(@, Plane)], S_OK)
InitPlane(w, in) ==
    WithHr([SetCast(PlaneTextures(ActorSetMesh(ActorConstruct(w, in.F, Plane),
                                               in.F, Plane, <<PlaneMesh>>), in),
                    Plane, FALSE, TRUE)
               EXCEPT !.m_actors = Append(@, Plane)], S_OK)

\* lines 58-133 and 152-281, each part entered only if no earlier part returned
InitRenderTargetView(w, in) ==
    IF FAILED(w.hr) THEN w ELSE Step(RenderTargetViewInit(w, in.F), "RenderTargetView")
\* the depth texture step entered whatever the earlier steps returned
InitDepthStencil_Unguarded(w, in) ==
    Step(TextureInitSized(w, in.F, in.width, in.height), "DepthStencil")
InitDepthStencil(w, in) ==
    IF FAILED(w.hr) THEN w
    ELSE Step(TextureInitSized(w, in.F, in.width, in.height), "DepthStencil")
InitDepthStencilView(w, in) ==
    IF FAILED(w.hr) THEN w ELSE Step(DepthStencilViewInit(w, in.F), "DepthStencilView")
InitViewport(w, in) ==
    IF FAILED(w.hr) THEN w ELSE Step(ViewportInit(w, in.hWnd, in.width, in.height), "Viewport")
InitShaderProgram(w, in) ==
    IF FAILED(w.hr) THEN w
    ELSE Step(ShaderProgramInit(w, in.F, 0, "Soulpher-Engine.fx", FALSE), "ShaderProgram")
InitNeverChanges(w, in) ==
    IF FAILED(w.hr) THEN w
    ELSE Step(BufferInitConstant(w, in.F, fViewCB, SizeofCBNeverChanges), "CBNeverChanges")
InitChangeOnResize(w, in) ==
    IF FAILED(w.hr) THEN w
    ELSE Step(BufferInitConstant(w, in.F, fProjCB, SizeofCBChangeOnResize), "CBChangeOnResize")
InitScene(w, in) ==
    IF FAILED(w.hr) THEN w ELSE InitMartis(w, in)
InitUserInterface(w, in) ==
    WithHr(UserInterfaceInit(w, in.hWnd, Get(w, fDevice), Get(w, fContext)), S_OK)
\* the floor and the ImGui layer entered whatever the earlier steps returned
InitFloor_Unguarded(w, in) == InitUserInterface(InitPlane(w, in), in)
InitFloor(w, in) ==
    IF FAILED(w.hr) THEN w ELSE InitUserInterface(InitPlane(w, in), in)

BaseAppInit(w, in) ==
    InitFloor(
      InitScene(
        InitChangeOnResize(
          InitNeverChanges(
            InitShaderProgram(
              InitViewport(
                InitDepthStencilView(
                  InitDepthStencil(
                    InitRenderTargetView(
                      Step(SwapChainInit(w, in.F, in.hWnd), "SwapChain"),
                      in), in), in), in), in), in), in), in), in)

(***************************************************************************)
(* BaseApp::destroy                                                        *)
(***************************************************************************)
RECURSIVE DestroyActors(_, _)
DestroyActors(w, i) ==
    IF i > Len(w.m_actors) THEN w
    ELSE DestroyActors(ActorDestroy(w, w.m_actors[i]), i + 1)

SwapChainDestroy(w) ==
    SAFE_RELEASE(SAFE_RELEASE(SAFE_RELEASE(SAFE_RELEASE(w, fSwapChain), fDxgiDevice),
                              fDxgiAdapter), fDxgiFactory)

ClearState(w) ==
    IF Get(w, fContext) # Null THEN Note(w, "ClearState", NoSite, S_OK) ELSE w
ReleaseContext(w) == IF Get(w, fContext) # Null THEN Release(w, fContext) ELSE w
ReleaseDevice(w) == IF Get(w, fDevice) # Null THEN Release(w, fDevice) ELSE w
ClearActors(w) == [w EXCEPT !.m_actors = << >>]

\* lines 462-477: everything after m_userInterface.destroy()
DestroyGpu(w) ==
    ReleaseDevice(
      ReleaseContext(
        SwapChainDestroy(
          SAFE_RELEASE(
            SAFE_RELEASE(
              TextureDestroy(
                ShaderProgramDestroy(
                  SAFE_RELEASE(
                    SAFE_RELEASE(ClearActors(DestroyActors(ClearState(w), 1)), fViewCB),
                    fProjCB), 0),
                fDepthSRV, fDepthTex),
              fDSV),
            fRTV))))

\* BaseApp::destroy with the ImGui shutdown moved behind the releases
BaseAppDestroy_GpuFirst(w) ==
    UserInterfaceDestroy(DestroyGpu(Note(w, "BaseApp::destroy", NoSite, S_OK)))
BaseAppDestroy(w) ==
    DestroyGpu(UserInterfaceDestroy(Note(w, "BaseApp::destroy", NoSite, S_OK)))

(***************************************************************************)
(* Orbit camera (BaseApp.h 153-156, BaseApp::update 327-399).              *)
(* Angles are kept in quarter degrees (one cursor pixel is 0.25 degree),   *)
(* lengths in 1/DistScale units; a float product is modelled by the        *)
(* truncated fixed-point product.  Cursor x positions are multiples of     *)
(* 360 pixels, so the yaw is a multiple of 90 degrees and sin/cos of the   *)
(* yaw are exact.                                                          *)
(***************************************************************************)
DistScale == 10
PitchMin4 == (-89) * 4
PitchMax4 == 89 * 4
DistMin == 2 * DistScale
DistMax == 50 * DistScale
NewCamera == [yaw4 |-> 0, pitch4 |-> 60, dist |-> 10 * DistScale,
              target |-> <<0, -5 * DistScale, 0>>,
              orbitando |-> FALSE, paneando |-> FALSE, ultimo |-> <<0, 0>>]

\* std::clamp without its upper bound
Clamp_NoUpper(v, lo, hi) == IF v < lo THEN lo ELSE v
Clamp(v, lo, hi) == IF v < lo THEN lo ELSE IF hi < v THEN hi ELSE v

\* sin and cos of an angle that is a multiple of 90 degrees
Quadrant(yaw4) == (yaw4 \div 360) % 4
Sin90(yaw4) == CASE Quadrant(yaw4) = 0 -> 0 [] Quadrant(yaw4) = 1 -> 1
                 [] Quadrant(yaw4) = 2 -> 0 [] OTHER -> -1
Cos90(yaw4) == CASE Quadrant(yaw4) = 0 -> 1 [] Quadrant(yaw4) = 1 -> 0
                 [] Quadrant(yaw4) = 2 -> -1 [] OTHER -> 0

\* truncation toward zero of a / b, b > 0 (the fixed-point product)
TruncDiv(a, b) == IF a >= 0 THEN a \div b ELSE -((-a) \div b)

\* ORBIT (RMB), lines 337-348
CameraOrbit(c, in) ==
    IF in.rmb
    THEN LET ult == IF ~c.orbitando THEN <<in.cx, in.cy>> ELSE c.ultimo
             dx == in.cx - ult[1]
             dy == in.cy - ult[2]
         IN [c EXCEPT !.orbitando = TRUE,
                      !.yaw4 = c.yaw4 + dx,
                      !.pitch4 = Clamp(c.pitch4 - dy, PitchMin4, PitchMax4),
                      !.ultimo = <<in.cx, in.cy>>]
    ELSE [c EXCEPT !.orbitando = FALSE]

\* ZOOM (wheel), lines 351-355
CameraZoom(c, in) ==
    IF in.wheel # 0
    THEN [c EXCEPT !.dist = Clamp(TruncDiv(c.dist * (IF in.wheel > 0 THEN 9 ELSE 11), 10),
                                  DistMin, DistMax)]
    ELSE c

\* PAN (MMB), lines 358-381: right = (cos yaw, 0, -sin yaw), up = (0, 1, 0),
\* panSpeed = distance * 0.0025
CameraPan(c, in) ==
    IF in.mmb
    THEN LET ult == IF ~c.paneando THEN <<in.cx, in.cy>> ELSE c.ultimo
             dx == in.cx - ult[1]
             dy == in.cy - ult[2]
             px == TruncDiv((-dx) * c.dist * Cos90(c.yaw4), 400)
             py == TruncDiv(dy * c.dist, 400)
             pz == TruncDiv(dx * c.dist * Sin90(c.yaw4), 400)
         IN [c EXCEPT !.paneando = TRUE,
                      !.ultimo = <<in.cx, in.cy>>,
                      !.target = <<c.target[1] + px, c.target[2] + py, c.target[3] + pz>>]
    ELSE [c EXCEPT !.paneando = FALSE]

\* Lines 334-382: the controls run only while the UI does not capture the mouse.
CameraControls_IgnoreCapture(c, in) == CameraPan(CameraZoom(CameraOrbit(c, in), in), in)
CameraControls(c, in) ==
    IF ~in.capture THEN CameraPan(CameraZoom(CameraOrbit(c, in), in), in) ELSE c

(***************************************************************************)
(* Per-frame pipeline calls.  A frame log is the sequence of calls the     *)
(* handler issues, in program order.                                       *)
(***************************************************************************)
D3D11_BIND_CONSTANT_BUFFER == 4

\* a call recorded only when its guard holds
CallIf(cond, log, op, site, slot) == IF cond THEN Append(log, Call(op, site, slot)) ELSE log

\* Buffer::update
BufferUpdate(w, log, field) ==
    IF Get(w, field) = Null THEN log
    ELSE Append(log, Call("UpdateSubresource", field, 0))

\* Buffer::render(deviceContext, StartSlot, NumBuffers, setPixelShader, format)
BufferRender(w, log, buf, bindFlag, slot, setPixelShader) ==
    IF Get(w, fContext) = Null THEN log
    ELSE IF buf = Null THEN log
    ELSE IF bindFlag = D3D11_BIND_VERTEX_BUFFER
         THEN Append(log, Call("IASetVertexBuffers", buf, slot))
    ELSE IF bindFlag = D3D11_BIND_CONSTANT_BUFFER
         THEN CallIf(setPixelShader, Append(log, Call("VSSetConstantBuffers", buf, slot)),
                     "PSSetConstantBuffers", buf, slot)
    ELSE IF bindFlag = D3D11_BIND_INDEX_BUFFER
         THEN Append(log, Call("IASetIndexBuffer", buf, 0))
    ELSE log

\* DeviceContext::DrawIndexed; pass is "shadow" or "opaque", i the mesh
DrawIndexed(log, a, pass, i, IndexCount) ==
    IF IndexCount = 0 THEN log
    ELSE Append(log, Call("DrawIndexed", <<a, pass, i>>, IndexCount))

\* Reading element i of a vector of n Buffers.  Past the end the read is
\* undefined: the process faults ("crash"), or the bytes read are a null
\* ("null") or a non-null ("garbage") pointer.
Garbage(a, i) == <<a, "garbage", i>>
VectorAt(w, field, i, n, ub) ==
    IF i <= n THEN Get(w, field)
    ELSE IF ub = "null" THEN Null ELSE Garbage(field[1], i)

\* The mesh loop shared by Actor::render and Actor::renderShadow.
\* acc = [log, crashed]
RECURSIVE MeshLoop(_, _, _, _, _, _)
MeshDrawTexture(w, log, a, pass, i) ==
    DrawIndexed(
      CallIf(pass = "opaque" /\ w.actors[a].nTex > 0 /\ i <= w.actors[a].nTex
               /\ Get(w, fContext) # Null /\ Get(w, fTexSRV(a, i)) # Null,
             log, "PSSetShaderResources", Get(w, fTexSRV(a, i)), 0),
      a, pass, i, w.actors[a].meshes[i].numIndex)
MeshDrawModel(w, log, a, pass, i) ==
    IF pass = "opaque"
    THEN MeshDrawTexture(w, BufferRender(w, log, Get(w, fModelBuffer(a)),
                                         D3D11_BIND_CONSTANT_BUFFER, 2, TRUE), a, pass, i)
    ELSE MeshDrawTexture(w, log, a, pass, i)
MeshDraw(w, log, a, pass, i, ub) ==
    MeshDrawModel(w,
      BufferRender(w,
        BufferRender(w, log, VectorAt(w, fVB(a, i), i, w.actors[a].nVB, ub),
                     D3D11_BIND_VERTEX_BUFFER, 0, FALSE),
        VectorAt(w, fIB(a, i), i, w.actors[a].nIB, ub), D3D11_BIND_INDEX_BUFFER, 0, FALSE),
      a, pass, i)

MeshLoop(w, acc, a, pass, i, ub) ==
    IF i > Len(w.actors[a].meshes) \/ acc.crashed THEN acc
    ELSE IF (i > w.actors[a].nVB \/ i > w.actors[a].nIB) /\ ub = "crash"
         THEN [acc EXCEPT !.crashed = TRUE]
    ELSE MeshLoop(w, [acc EXCEPT !.log = MeshDraw(w, acc.log, a, pass, i, ub)],
                  a, pass, i + 1, ub)

\* Actor::renderShadow
WithLog(acc, log) == [acc EXCEPT !.log = log]
ShadowStates(w, log, a) ==
    Append(
      CallIf(Get(w, fContext) # Null /\ Get(w, fShadowDSS(a)) # Null,
        CallIf(Get(w, fContext) # Null /\ Get(w, fShadowBlend(a)) # Null,
          CallIf(Get(w, fContext) # Null,
            BufferRender(w, BufferUpdate(w, log, fShaderBuffer(a)),
                         Get(w, fShaderBuffer(a)), D3D11_BIND_CONSTANT_BUFFER, 2, TRUE),
            "PSSetShader", Get(w, fPS(a)), 0),
          "OMSetBlendState", Get(w, fShadowBlend(a)), 0),
        "OMSetDepthStencilState", Get(w, fShadowDSS(a)), 0),
      Call("IASetPrimitiveTopology", NoSite, 0))
ActorRenderShadow(w, acc, a, ub) ==
    MeshLoop(w, WithLog(acc, ShadowStates(w, acc.log, a)), a, "shadow", 1, ub)

\* Actor::render
OpaqueStates(w, log, a) ==
    Append(
      CallIf(Get(w, fSampler(a)) # Null,
        CallIf(Get(w, fRasterizer(a)) # Null,
          CallIf(Get(w, fContext) # Null /\ Get(w, fBlend(a)) # Null,
                 log, "OMSetBlendState", Get(w, fBlend(a)), 0),
          "RSSetState", Get(w, fRasterizer(a)), 0),
        "PSSetSamplers", Get(w, fSampler(a)), 0),
      Call("IASetPrimitiveTopology", NoSite, 0))
ActorRenderOpaque(w, acc, a, ub) ==
    IF acc.crashed THEN acc
    ELSE MeshLoop(w, WithLog(acc, OpaqueStates(w, acc.log, a)), a, "opaque", 1, ub)

ActorRenderCast(w, acc, a, ub) ==
    IF w.actors[a].castShadow THEN ActorRenderShadow(w, acc, a, ub) ELSE acc
\* Actor::render with the shadow pass behind the opaque pass
ActorRender_OpaqueFirst(w, acc, a, ub) ==
    ActorRenderCast(w,
      ActorRenderOpaque(w, WithLog(acc, Append(acc.log, Call("Actor::render", <<a, "", 0>>, 0))),
                        a, ub),
      a, ub)
ActorRender(w, acc, a, ub) ==
    ActorRenderOpaque(w,
      ActorRenderCast(w, WithLog(acc, Append(acc.log, Call("Actor::render", <<a, "", 0>>, 0))),
                      a, ub),
      a, ub)

RECURSIVE RenderActors(_, _, _, _)
RenderActors(w, acc, i, ub) ==
    IF i > Len(w.m_actors) \/ acc.crashed THEN acc
    ELSE RenderActors(w, ActorRender(w, acc, w.m_actors[i], ub), i + 1, ub)

\* RenderTargetView::render(deviceContext, depthStencilView, numViews, ClearColor)
RenderTargetViewRender(w, log) ==
    IF Get(w, fContext) = Null THEN log
    ELSE IF Get(w, fRTV) = Null THEN log
    ELSE CallIf(Get(w, fDSV) # Null,
                Append(Append(log, Call("OMSetRenderTargets", Get(w, fRTV), 0)),
                       Call("ClearRenderTargetView", Get(w, fRTV), 0)),
                "ClearDepthStencilView", Get(w, fDSV), 0)

\* Viewport::render
ViewportRender(w, log) ==
    IF Get(w, fContext) = Null THEN log
    ELSE Append(log, Call("RSSetViewports", NoSite, 0))

\* DepthStencilView::render
DepthStencilViewRender(w, log) ==
    IF Get(w, fContext) = Null THEN log
    ELSE IF Get(w, fDSV) = Null THEN log
    ELSE Append(log, Call("ClearDepthStencilView", Get(w, fDSV), 0))

\* ShaderProgram::render(deviceContext)
ShaderProgramRender(w, log, o) ==
    IF Get(w, fVS(o)) = Null \/ Get(w, fPS(o)) = Null \/ Get(w, fLayout(o)) = Null THEN log
    ELSE Append(Append(Append(log, Call("IASetInputLayout", Get(w, fLayout(o)), 0)),
                       Call("VSSetShader", Get(w, fVS(o)), 0)),
                Call("PSSetShader", Get(w, fPS(o)), 0))

\* SwapChain::present
SwapChainPresent(w, log) ==
    IF Get(w, fSwapChain) # Null THEN Append(log, Call("Present", Get(w, fSwapChain), 0))
    ELSE log

\* BaseApp::render; the result is [log, crashed]
\* lines 444-445 in the opposite order
RenderUI_PresentFirst(w, acc) ==
    IF acc.crashed THEN acc
    ELSE WithLog(acc, Append(SwapChainPresent(w, acc.log), Call("ImGuiRender", NoSite, 0)))
RenderUI(w, acc) ==
    IF acc.crashed THEN acc
    ELSE WithLog(acc, SwapChainPresent(w, Append(acc.log, Call("ImGuiRender", NoSite, 0))))
BaseAppRender(w, ub) ==
    RenderUI(w,
      RenderActors(w,
        [log |-> BufferRender(w,
                   BufferRender(w,
                     ShaderProgramRender(w,
                       DepthStencilViewRender(w,
                         ViewportRender(w, RenderTargetViewRender(w, << >>))), 0),
                     Get(w, fViewCB), D3D11_BIND_CONSTANT_BUFFER, 0, FALSE),
                   Get(w, fProjCB), D3D11_BIND_CONSTANT_BUFFER, 1, FALSE),
         crashed |-> FALSE], 1, ub))

(***************************************************************************)
(* BaseApp::update.  The frame input `in` carries what the widgets and the *)
(* input devices report during this frame.  The result is                  *)
(* [ui, cam, log, exited].                                                 *)
(***************************************************************************)
\* UserInterface::ToolBar: File > Exit arms the exit popup
ToolBar(ui, in) ==
    IF in.menuExit THEN [ui EXCEPT !.show_exit_popup = TRUE] ELSE ui

\* UserInterface::closeApp: the result is [ui, exited].  The OK and Cancel
\* buttons exist only while the modal is open.
ExitPopup(ui, in) ==
    IF ui.popupOpen /\ in.ok THEN [ui |-> ui, exited |-> TRUE]
    ELSE IF ui.popupOpen /\ in.cancel
         THEN [ui |-> [ui EXCEPT !.popupOpen = FALSE], exited |-> FALSE]
    ELSE [ui |-> ui, exited |-> FALSE]
closeApp(ui, in) ==
    ExitPopup(IF ui.show_exit_popup
              THEN [ui EXCEPT !.popupOpen = TRUE, !.show_exit_popup = FALSE]
              ELSE ui, in)

\* UserInterface::update
UserInterfaceUpdate(ui, in) == closeApp(ToolBar(ui, in), in)

\* UserInterface::outliner: a click on node i selects it
outliner(ui, nActors, in) ==
    IF in.click >= 0 /\ in.click < nActors
    THEN [ui EXCEPT !.selectedActorIndex = in.click] ELSE ui

\* Actor::update
ActorUpdate(w, log, a) ==
    BufferUpdate(w, Append(log, Call("Actor::update", <<a, "", 0>>, 0)), fModelBuffer(a))

RECURSIVE UpdateActors(_, _, _)
UpdateActors(w, log, i) ==
    IF i > Len(w.m_actors) THEN log
    ELSE UpdateActors(w, ActorUpdate(w, log, w.m_actors[i]), i + 1)

\* m_actors[i]; an index outside the vector reads no actor of the list
ActorAt(m_actors, i) ==
    IF i >= 0 /\ i < Len(m_actors) THEN <<m_actors[i + 1], "", 0>> ELSE <<0, "out of range", i>>
\* lines 306-315: the inspector of the selected actor, then the outliner
InspectorAndOutliner(ui, m_actors, log, in) ==
    [ui |-> outliner(ui, Len(m_actors), in),
     log |-> Append(CallIf(m_actors # << >>, log, "inspectorGeneral",
                           ActorAt(m_actors, ui.selectedActorIndex), ui.selectedActorIndex),
                    Call("outliner", NoSite, 0))]
\* the inspector called with the index as it is
Inspector_Unclamped(ui, m_actors, log, in) == InspectorAndOutliner(ui, m_actors, log, in)
Inspector(ui, m_actors, log, in) ==
    InspectorAndOutliner(
      IF m_actors # << >> /\ (ui.selectedActorIndex < 0
                               \/ ui.selectedActorIndex >= Len(m_actors))
      THEN [ui EXCEPT !.selectedActorIndex = 0] ELSE ui,
      m_actors, log, in)

\* the scene part with the actors updated before the camera buffers are uploaded
UpdateScene_ActorsFirst(w, c, in, s) ==
    [ui |-> s.ui, cam |-> CameraControls(c, in), exited |-> FALSE,
     log |-> BufferUpdate(w,
               BufferUpdate(w,
                 Append(UpdateActors(w, s.log, 1), Call("ViewRecomputed", NoSite, 0)),
                 fViewCB),
               fProjCB)]
\* lines 327-412, s = [ui, log] after the UI part
UpdateScene(w, c, in, s) ==
    [ui |-> s.ui, cam |-> CameraControls(c, in), exited |-> FALSE,
     log |-> UpdateActors(w,
               BufferUpdate(w,
                 BufferUpdate(w, Append(s.log, Call("ViewRecomputed", NoSite, 0)), fViewCB),
                 fProjCB), 1)]
\* r = [ui, exited] as UserInterface::update left it
UpdateAfterUI(w, c, in, r) ==
    IF r.exited
    THEN [ui |-> r.ui, cam |-> c, exited |-> TRUE,
          log |-> << Call("ImGuiNewFrame", NoSite, 0), Call("exit", NoSite, 0) >>]
    ELSE UpdateScene(w, c, in,
                     Inspector(r.ui, w.m_actors, << Call("ImGuiNewFrame", NoSite, 0) >>, in))
BaseAppUpdate(w, c, in) == UpdateAfterUI(w, c, in, UserInterfaceUpdate(w.ui, in))

(***************************************************************************)
(* The environment: which native calls fail, which image files exist,      *)
(* what the FBX loader returns, what the user does during a frame.         *)
(***************************************************************************)
MeshIds == 1..MaxMeshes
ActorSites(a) ==
    { fModelBuffer(a), fSampler(a), fRasterizer(a), fBlend(a),
      CompileSite(a, PIXEL_SHADER), fPS(a),
      fShaderBuffer(a), fShadowBlend(a), fShadowDSS(a) }
    \cup { VBObj(a, i) : i \in MeshIds } \cup { IBObj(a, i) : i \in MeshIds }
TextureSites ==
    { StagingObj(Martis, "axl_D", PNG), SrvObj(Martis, "axl_D", PNG),
      StagingObj(Martis, "axl_wq_D", PNG), SrvObj(Martis, "axl_wq_D", PNG),
      SrvObj(Martis, "Default", DDS),
      StagingObj(Martis, "Default", PNG), SrvObj(Martis, "Default", PNG),
      StagingObj(0, "piedra", PNG), SrvObj(0, "piedra", PNG),
      SrvObj(0, "Default", DDS),
      StagingObj(0, "Default", PNG), SrvObj(0, "Default", PNG) }
Sites ==
    { CreateDeviceSite(i) : i \in 1..Len(DriverTypes) }
    \cup { fDxgiDevice, fDxgiAdapter, fDxgiFactory, fSwapChain, <<0, "GetBuffer", 0>>,
           RTVSite(0), RTVSite(1), fDepthTex, fDSV,
           CompileSite(0, VERTEX_SHADER), fVS(0), fLayout(0),
           CompileSite(0, PIXEL_SHADER), fPS(0), fViewCB, fProjCB }
    \cup ActorSites(Martis) \cup ActorSites(Plane) \cup TextureSites

\* No failure, one failing call, or one of the multi-call failures of a
\* retried creation (every driver type, both render-target-view attempts).
FailSets ==
    { {} } \cup { {s} : s \in Sites }
    \cup { { CreateDeviceSite(i) : i \in 1..n } : n \in 2..Len(DriverTypes) }
    \cup { { RTVSite(0), RTVSite(1) } }

AllFiles == { <<"axl_D", PNG>>, <<"axl_wq_D", PNG>>, <<"Default", DDS>>,
              <<"Default", PNG>>, <<"piedra", PNG>>, <<"piedra", JPG>> }
FileSets ==
    { AllFiles \ m : m \in
        { {}, { <<"axl_D", PNG>> }, { <<"axl_D", PNG>>, <<"axl_wq_D", PNG>> },
          { <<"piedra", PNG>> }, { <<"piedra", PNG>>, <<"Default", DDS>> },
          { <<"axl_D", PNG>>, <<"axl_wq_D", PNG>>, <<"Default", DDS>> },
          AllFiles } }

\* What ModelLoader::LoadFBXModel leaves in `meshes`.
FbxMesh == [nVertex |-> 3, nIndex |-> 3, numIndex |-> 3]
RECURSIVE Repeat(_, _)
Repeat(x, n) == IF n = 0 THEN << >> ELSE Append(Repeat(x, n - 1), x)
MeshLists == { Repeat(FbxMesh, n) : n \in 0..MaxMeshes }

\* A failing call is combined with every file set when it is a texture call,
\* otherwise with all files present.
FailAndFiles ==
    { <<F, fs>> \in FailSets \X FileSets : fs = AllFiles \/ F \subseteq TextureSites }
InitInputs ==
    { [F |-> e[1], files |-> e[2], fbxOk |-> ok, meshes |-> ms]
        : e \in FailAndFiles, ok \in BOOLEAN, ms \in MeshLists }

FrameInput(menuExit, ok, cancel, click, capture, rmb, mmb, cx, cy, wheel) ==
    [menuExit |-> menuExit, ok |-> ok, cancel |-> cancel, click |-> click,
     capture |-> capture, rmb |-> rmb, mmb |-> mmb, cx |-> cx, cy |-> cy, wheel |-> wheel]
Idle == FrameInput(FALSE, FALSE, FALSE, -1, FALSE, FALSE, FALSE, 0, 0, 0)
\* the frames of the lifecycle specification
FrameInputs ==
    { Idle,
      [Idle EXCEPT !.menuExit = TRUE],
      [Idle EXCEPT !.ok = TRUE],
      [Idle EXCEPT !.cancel = TRUE],
      [Idle EXCEPT !.click = 1, !.capture = TRUE],
      [Idle EXCEPT !.rmb = TRUE, !.cx = 360, !.cy = 400, !.wheel = 1] }
\* the frames of the camera specification: the cursor moves by 100 degrees
\* of pitch between two positions, the wheel turns either way
CamInputs ==
    { Idle,
      [Idle EXCEPT !.capture = TRUE, !.rmb = TRUE, !.cy = 400, !.wheel = 1],
      [Idle EXCEPT !.rmb = TRUE],
      [Idle EXCEPT !.rmb = TRUE, !.cy = 400],
      [Idle EXCEPT !.wheel = 1],
      [Idle EXCEPT !.wheel = -1],
      [Idle EXCEPT !.mmb = TRUE, !.cx = 40] }

UBOutcomes == {"crash", "null", "garbage"}
Messages == {"WM_CLOSE", "WM_PAINT"}

(***************************************************************************)
(* wWinMain / BaseApp::run as a state machine.                             *)
(***************************************************************************)
VARIABLES
    pc,         \* where run() is: "start", "window", "loop", "updated",
                \* "done" (run returned), "exited" (exit(0)), "crashed"
    retVal,     \* the value run() returned
    calls,      \* the BaseApp calls and message dispatches of run(), in order
    world,      \* the BaseApp object: wrappers, native objects, actors, UI
    cam,        \* m_camYawDeg, m_camPitchDeg, m_camDistance, m_camTarget and statics
    window,     \* m_window: m_hWnd, m_width, m_height
    msg,        \* msg.message of run()
    queue,      \* the thread's posted messages
    quitPosted, \* PostQuitMessage was called
    posted,     \* number of messages the user has posted
    frames,     \* number of update() calls
    updLog,     \* the calls of the last update()
    renLog,     \* the calls of the last render()
    initHr,     \* the status BaseApp::init returned
    unit        \* a unit-level specification's record of the last call made on the
                \* object under study: its arguments and its result

vars == <<pc, retVal, calls, world, cam, window, msg, queue, quitPosted, posted,
          frames, updLog, renLog, initHr, unit>>

NoWindow == [hWnd |-> FALSE, width |-> 0, height |-> 0]
\* no call made yet
NoUnit == [op |-> "none"]

Init ==
    /\ pc = "start"
    /\ retVal = -1
    /\ calls = << >>
    /\ world = EmptyWorld
    /\ cam = NewCamera
    /\ window = NoWindow
    /\ msg = "0"
    /\ queue = << >>
    /\ quitPosted = FALSE
    /\ posted = 0
    /\ frames = 0
    /\ updLog = << >>
    /\ renLog = << >>
    /\ initHr = S_OK
    /\ unit = NoUnit

\* run(), lines 501-502: Window::init; on failure run returns 0.
RunWindowInit ==
    /\ pc = "start"
    /\ \E ok \in BOOLEAN, width \in {0, 1200} :
         IF ok
         THEN /\ window' = [hWnd |-> TRUE, width |-> width,
                            height |-> IF width = 0 THEN 0 ELSE 1010]
              /\ pc' = "window"
              /\ UNCHANGED retVal
         ELSE /\ pc' = "done"
              /\ retVal' = 0
              /\ UNCHANGED window
    /\ UNCHANGED <<unit, calls, world, cam, msg, queue, quitPosted, posted, frames,
                   updLog, renLog, initHr>>

WithWindow(in) ==
    [F |-> in.F, files |-> in.files, fbxOk |-> in.fbxOk, meshes |-> in.meshes,
     hWnd |-> window.hWnd, width |-> window.width, height |-> window.height]

\* w1 is the BaseApp as init() left it
InitReturned(w1) ==
    /\ initHr' = w1.hr
    /\ IF FAILED(w1.hr)
       THEN /\ world' = BaseAppDestroy(w1)
            /\ calls' = calls \o <<"init", "destroy">>
            /\ pc' = "done"
            /\ retVal' = 0
       ELSE /\ world' = w1
            /\ calls' = Append(calls, "init")
            /\ pc' = "loop"
            /\ UNCHANGED retVal

InitReturnedNoDestroy(w1) ==
    /\ initHr' = w1.hr
    /\ world' = w1
    /\ calls' = Append(calls, "init")
    /\ IF FAILED(w1.hr)
       THEN pc' = "done" /\ retVal' = 0
       ELSE pc' = "loop" /\ UNCHANGED retVal

\* RunInit with the failure branch returning without destroy().
RunInit_NoDestroy ==
    /\ pc = "window"
    /\ \E in \in InitInputs : InitReturnedNoDestroy(BaseAppInit(world, WithWindow(in)))
    /\ UNCHANGED <<unit, cam, window, msg, queue, quitPosted, posted, frames, updLog, renLog>>

\* run(), lines 504-507: init(); on failure destroy() and return 0.
RunInit ==
    /\ pc = "window"
    /\ \E in \in InitInputs : InitReturned(BaseAppInit(world, WithWindow(in)))
    /\ UNCHANGED <<unit, cam, window, msg, queue, quitPosted, posted, frames, updLog, renLog>>

\* The user acts on the window: a message is posted to the thread's queue.
PostMessage ==
    /\ pc \in {"loop", "updated"}
    /\ window.hWnd
    /\ posted < MaxMsgs
    /\ \E m \in Messages : queue' = Append(queue, m)
    /\ posted' = posted + 1
    /\ UNCHANGED <<unit, pc, retVal, calls, world, cam, window, msg, quitPosted, frames,
                   updLog, renLog, initHr>>

\* run(), lines 511-514, with WndProc (Soulpher-Engine.cpp 82-110):
\* PeekMessage finds a message; WM_QUIT is delivered once the queue is empty.
\* WM_CLOSE reaches DefWindowProc, which destroys the window; the WM_DESTROY
\* it sends calls PostQuitMessage(0).
DispatchMessage ==
    /\ pc = "loop"
    /\ msg # "WM_QUIT"
    /\ queue # << >> \/ quitPosted
    /\ IF queue # << >>
       THEN /\ msg' = Head(queue)
            /\ queue' = Tail(queue)
            /\ IF Head(queue) = "WM_CLOSE"
               THEN /\ window' = [window EXCEPT !.hWnd = FALSE]
                    /\ quitPosted' = TRUE
               ELSE UNCHANGED <<window, quitPosted>>
       ELSE /\ msg' = "WM_QUIT"
            /\ quitPosted' = FALSE
            /\ UNCHANGED <<queue, window>>
    /\ calls' = Append(calls, "dispatch")
    /\ UNCHANGED <<unit, pc, retVal, world, cam, posted, frames, updLog, renLog, initHr>>

\* run(), line 517: update() when PeekMessage finds nothing.
Updated(r) ==
    /\ world' = [world EXCEPT !.ui = r.ui]
    /\ cam' = r.cam
    /\ updLog' = r.log
    /\ pc' = IF r.exited THEN "exited" ELSE "updated"
Update(in) ==
    /\ pc = "loop"
    /\ msg # "WM_QUIT"
    /\ queue = << >> /\ ~quitPosted
    /\ Updated(BaseAppUpdate(world, cam, in))
    /\ calls' = Append(calls, "update")
    /\ frames' = frames + 1
    /\ UNCHANGED <<unit, retVal, window, msg, queue, quitPosted, posted, renLog, initHr>>

UpdateFrame == frames < MaxFrames /\ \E in \in FrameInputs : Update(in)

\* run(), line 518: render().
Rendered(r) ==
    /\ renLog' = r.log
    /\ pc' = IF r.crashed THEN "crashed" ELSE "loop"
Render ==
    /\ pc = "updated"
    /\ \E ub \in UBOutcomes : Rendered(BaseAppRender(world, ub))
    /\ calls' = Append(calls, "render")
    /\ UNCHANGED <<unit, retVal, world, cam, window, msg, queue, quitPosted, posted, frames,
                   updLog, initHr>>

\* RunDestroy returning the message code of WM_QUIT (0x12) instead of wParam.
WM_QUIT == 18
RunDestroy_ReturnsMessage ==
    /\ pc = "loop"
    /\ msg = "WM_QUIT"
    /\ world' = BaseAppDestroy(world)
    /\ calls' = Append(calls, "destroy")
    /\ retVal' = WM_QUIT
    /\ pc' = "done"
    /\ UNCHANGED <<unit, cam, window, msg, queue, quitPosted, posted, frames, updLog, renLog, initHr>>

\* run(), lines 522-523: the loop ends on WM_QUIT; destroy(); return msg.wParam.
RunDestroy ==
    /\ pc = "loop"
    /\ msg = "WM_QUIT"
    /\ world' = BaseAppDestroy(world)
    /\ calls' = Append(calls, "destroy")
    /\ retVal' = 0
    /\ pc' = "done"
    /\ UNCHANGED <<unit, cam, window, msg, queue, quitPosted, posted, frames, updLog, renLog, initHr>>

Next ==
    \/ RunWindowInit
    \/ RunInit
    \/ PostMessage
    \/ DispatchMessage
    \/ UpdateFrame
    \/ Render
    \/ RunDestroy

Spec == Init /\ [][Next]_vars

\* run() is one thread that keeps executing: a pending message is retrieved
\* by the next PeekMessage, and the statements after the loop are executed.
\* ReturnFromLoop is enabled exactly when RunDestroy is, and the steps of Next
\* that satisfy it are the steps of RunDestroy.
ReturnFromLoop == pc = "loop" /\ msg = "WM_QUIT" /\ pc' = "done"
SpecFair == Spec /\ WF_vars(DispatchMessage) /\ WF_pc(ReturnFromLoop)

(***************************************************************************)
(* The camera specification: the frames of a run whose init() succeeded    *)
(* with every file present, under the camera inputs.                       *)
(***************************************************************************)
GoodInit ==
    [F |-> {}, files |-> AllFiles, fbxOk |-> TRUE, meshes |-> <<FbxMesh>>,
     hWnd |-> TRUE, width |-> 1200, height |-> 1010]

InitCam ==
    /\ pc = "loop"
    /\ retVal = -1
    /\ calls = <<"init">>
    /\ world = BaseAppInit(EmptyWorld, GoodInit)
    /\ cam = NewCamera
    /\ window = [hWnd |-> TRUE, width |-> 1200, height |-> 1010]
    /\ msg = "0"
    /\ queue = << >>
    /\ quitPosted = FALSE
    /\ posted = 0
    /\ frames = 0
    /\ updLog = << >>
    /\ renLog = << >>
    /\ initHr = S_OK
    /\ unit = NoUnit

UpdateCam == frames < MaxCamFrames /\ \E in \in CamInputs : Update(in)

NextCam == UpdateCam \/ Render

SpecCam == InitCam /\ [][NextCam]_vars

(***************************************************************************)
(* Unit-level specifications call the operations of one class on a         *)
(* Device that exists; run() has not started, its variables stay as they   *)
(* are.                                                                    *)
(***************************************************************************)
runVars == <<pc, retVal, calls, cam, window, msg, queue, quitPosted, posted, frames,
             updLog, initHr>>
HarnessIdle ==
    /\ pc = "start"
    /\ retVal = -1
    /\ calls = << >>
    /\ cam = NewCamera
    /\ window = NoWindow
    /\ msg = "0"
    /\ queue = << >>
    /\ quitPosted = FALSE
    /\ posted = 0
    /\ frames = 0
    /\ updLog = << >>
    /\ renLog = << >>
    /\ initHr = S_OK

(***************************************************************************)
(* The texture specification: Texture::init(device, name, type) and        *)
(* Texture::destroy called on m_PlaneTexture, with any name, any           *)
(* extension type, the file present or not, the native calls failing or    *)
(* not.                                                                    *)
(***************************************************************************)
\* a Device whose m_device was created, or an empty one
DeviceWorld(hasDevice) ==
    IF hasDevice THEN CreateDeviceLoop(EmptyWorld, {}, 1) ELSE EmptyWorld

TexNames == {"", "piedra"}
ExtensionTypes == {DDS, PNG, JPG}
\* the native calls Texture::init can make for one file
TexFailSets(name, ext) ==
    IF name = "" THEN {{}}
    ELSE {{}, {SrvObj(0, name, ext)}, {StagingObj(0, name, ext)}}

InitTex ==
    /\ HarnessIdle
    /\ \E hasDevice \in BOOLEAN : world = DeviceWorld(hasDevice)
    /\ unit = [op |-> "new", n |-> 0]

\* w1 is the world as the call left it
TextureInitReturned(w1, name, ext, exists, F) ==
    /\ world' = w1
    /\ unit' = [op |-> "Texture::init", n |-> unit.n + 1, name |-> name, ext |-> ext,
                exists |-> exists, F |-> F, hr |-> w1.hr,
                srv |-> Get(w1, fPlaneTexSRV)]

TextureInitCall ==
    /\ unit.n < MaxTexCalls
    /\ \E name \in TexNames, ext \in ExtensionTypes, exists \in BOOLEAN :
         \E F \in TexFailSets(name, ext) :
            TextureInitReturned(
              TextureInitFile(world, F, IF exists THEN {<<name, ext>>} ELSE {},
                              fPlaneTexSRV, fPlaneTexTex, name, ext),
              name, ext, exists, F)
    /\ UNCHANGED <<runVars, renLog>>

TextureDestroyCall ==
    /\ unit.op = "Texture::init"
    /\ world' = TextureDestroy(world, fPlaneTexSRV, fPlaneTexTex)
    /\ unit' = [op |-> "Texture::destroy", n |-> unit.n]
    /\ UNCHANGED <<runVars, renLog>>

NextTex == TextureInitCall \/ TextureDestroyCall

SpecTex == InitTex /\ [][NextTex]_vars

(***************************************************************************)
(* The actor specification: one Actor is constructed on a Device, then     *)
(* setMesh, setCastShadow and render are called on it in any order.        *)
(***************************************************************************)
\* a mesh whose m_index is empty: Buffer::init rejects its index buffer
EmptyIndexMesh == [nVertex |-> 3, nIndex |-> 0, numIndex |-> 0]
ActorMeshLists ==
    { Repeat(FbxMesh, n) : n \in 0..MaxActorMeshes }
    \cup { Append(Repeat(FbxMesh, n - 1), EmptyIndexMesh) : n \in 1..MaxActorMeshes }
SetMeshFails == {{}, {VBObj(Martis, 1)}}
ActorCtorFails == {{}, {fShadowDSS(Martis)}}

InitActor ==
    /\ HarnessIdle
    /\ \E F \in ActorCtorFails : world = ActorConstruct(DeviceWorld(TRUE), F, Martis)
    /\ unit = [op |-> "Actor::Actor", n |-> 0, crashed |-> FALSE]

ActorSetMeshCall ==
    /\ ~unit.crashed
    /\ unit.n < MaxSetMeshCalls
    /\ \E meshes \in ActorMeshLists, F \in SetMeshFails :
          world' = ActorSetMesh(world, F, Martis, meshes)
    /\ unit' = [op |-> "Actor::setMesh", n |-> unit.n + 1, crashed |-> FALSE]
    /\ UNCHANGED <<runVars, renLog>>

ActorSetCastShadowCall ==
    /\ ~unit.crashed
    /\ world' = SetCast(world, Martis, ~world.actors[Martis].castShadow,
                        world.actors[Martis].m_receiveShadow)
    /\ unit' = [unit EXCEPT !.op = "Actor::setCastShadow"]
    /\ UNCHANGED <<runVars, renLog>>

\* r = [log, crashed] as Actor::render left it
ActorRendered(r) ==
    /\ renLog' = r.log
    /\ unit' = [unit EXCEPT !.op = "Actor::render", !.crashed = r.crashed]
ActorRenderCall ==
    /\ ~unit.crashed
    /\ \E ub \in UBOutcomes :
          ActorRendered(ActorRender(world, [log |-> << >>, crashed |-> FALSE], Martis, ub))
    /\ UNCHANGED <<runVars, world>>

NextActor == ActorSetMeshCall \/ ActorSetCastShadowCall \/ ActorRenderCall

SpecActor == InitActor /\ [][NextActor]_vars

(***************************************************************************)
(* The shadow-matrix specification: the matrix S of Actor::renderShadow    *)
(* (Actor.cpp 190-200) for a light position, applied to a point as         *)
(* XMMATRIX products apply it: the row vector times the matrix.  Numbers   *)
(* are kept in 1/ShadowScale units; Ly is a power of two, so that          *)
(* invLy = 1.0f / Ly is exact as it is in binary floating point.           *)
(***************************************************************************)
ShadowScale == 4
\* float invLy = 1.0f / Ly
InvLy(L) == ShadowScale \div L[2]
\* XMMATRIX S(...), row by row as the constructor takes its arguments
ShadowMatrix(L) ==
    << <<ShadowScale, (-L[1]) * InvLy(L), 0, 0>>,
       <<0, 0, 0, 0>>,
       <<0, (-L[3]) * InvLy(L), ShadowScale, 0>>,
       <<0, 0, 0, ShadowScale>> >>
\* v * M, the transform of a row vector
RowTimes(v, M) ==
    [j \in 1..4 |-> v[1] * M[1][j] + v[2] * M[2][j] + v[3] * M[3][j] + v[4] * M[4][j]]

LightPositions == { <<lx, ly, lz>> : lx \in {-2, 0, 2}, ly \in {1, 2, 4}, lz \in {-2, 0, 2} }
GroundPoints == { <<x, 0, z, 1>> : x \in -2..2, z \in -2..2 }

InitShadow ==
    /\ HarnessIdle
    /\ world = EmptyWorld
    /\ \E L \in LightPositions, p \in GroundPoints : unit = [op |-> "new", L |-> L, p |-> p]

ShadowProject ==
    /\ unit.op = "new"
    /\ unit' = [op |-> "Actor::renderShadow", L |-> unit.L, p |-> unit.p,
                out |-> RowTimes(unit.p, ShadowMatrix(unit.L))]
    /\ UNCHANGED <<runVars, renLog, world>>

NextShadow == ShadowProject

SpecShadow == InitShadow /\ [][NextShadow]_vars

(***************************************************************************)
(* objl (OBJ_Loader.h): vectors are triples <<X, Y, Z>> of integers, on    *)
(* which the float arithmetic of the source is exact.                      *)
(***************************************************************************)
MaxPlaneZ == 1

VSub(a, b) == <<a[1] - b[1], a[2] - b[2], a[3] - b[3]>>
CrossV3(a, b) ==
    <<a[2] * b[3] - a[3] * b[2], a[3] * b[1] - a[1] * b[3], a[1] * b[2] - a[2] * b[1]>>
DotV3(a, b) == a[1] * b[1] + a[2] * b[2] + a[3] * b[3]
SameSide(p1, p2, a, b) ==
    DotV3(CrossV3(VSub(b, a), VSub(p1, a)), CrossV3(VSub(b, a), VSub(p2, a))) >= 0
GenTriNormal(t1, t2, t3) == CrossV3(VSub(t2, t1), VSub(t3, t1))
\* MagnitudeV3(ProjV3(point, n)) == 0: the projection is bn * DotV3(point, bn)
\* with bn = n / |n|; for n = 0 every component is NaN and the test is false.
ProjIsZero(point, n) == n # <<0, 0, 0>> /\ DotV3(point, n) = 0
inTriangle(point, tri1, tri2, tri3) ==
    /\ SameSide(point, tri1, tri2, tri3)
    /\ SameSide(point, tri2, tri1, tri3)
    /\ SameSide(point, tri3, tri1, tri2)
    /\ ProjIsZero(point, GenTriNormal(tri1, tri2, tri3))

\* pPrev and pNext of tVerts[i] (i counted from 1)
PrevVert(tVerts, i) == IF i = 1 THEN tVerts[Len(tVerts)] ELSE tVerts[i - 1]
NextVert(tVerts, i) == IF i = Len(tVerts) THEN tVerts[1] ELSE tVerts[i + 1]

\* the loops `for j < n : if (iVerts[j] == a) push j; if (== b) push j; if (== c) push j`
RECURSIVE PushMatches(_, _, _, _, _, _)
PushMatches(iVerts, n, j, a, b, c) ==
    IF j >= n THEN << >>
    ELSE (IF iVerts[j + 1] = a THEN <<j>> ELSE << >>)
         \o (IF iVerts[j + 1] = b THEN <<j>> ELSE << >>)
         \o (IF iVerts[j + 1] = c THEN <<j>> ELSE << >>)
         \o PushMatches(iVerts, n, j + 1, a, b, c)

\* lines 986-996: the first vertex of tVerts that is none of the three, the
\* default Vector3 when there is none
TempVec_First(tVerts, a, b, c) == tVerts[1]
TempVec(tVerts, a, b, c) ==
    IF \E j \in 1..Len(tVerts) : tVerts[j] \notin {a, b, c}
    THEN tVerts[CHOOSE j \in 1..Len(tVerts) :
                    /\ tVerts[j] \notin {a, b, c}
                    /\ \A k \in 1..(j - 1) : tVerts[k] \in {a, b, c}]
    ELSE <<0, 0, 0>>

\* lines 1016-1018: no angle is both <= 0 and >= 180
AngleSkips == \E angle \in 0..180 : angle <= 0 /\ angle >= 180

\* lines 1021-1035
AnyInTri(iVerts, pPrev, pCur, pNext) ==
    \E j \in 1..Len(iVerts) :
        /\ inTriangle(iVerts[j], pPrev, pCur, pNext)
        /\ iVerts[j] # pPrev
        /\ iVerts[j] # pCur
        /\ iVerts[j] # pNext

\* lines 1048-1056: tVerts.erase of the first vertex at pCur's position
EraseFirst(tVerts, k) == SubSeq(tVerts, 1, k - 1) \o SubSeq(tVerts, k + 1, Len(tVerts))
FirstAt(tVerts, pos) ==
    CHOOSE k \in 1..Len(tVerts) : tVerts[k] = pos /\ \A m \in 1..(k - 1) : tVerts[m] # pos

\* One run of the for loop from index i, up to its break or its end: the
\* vertices left and the indices emitted.
RECURSIVE ForVertex(_, _, _, _)
ForVertex(iVerts, tVerts, oIndices, i) ==
    IF i > Len(tVerts) THEN [tVerts |-> tVerts, oIndices |-> oIndices]
    ELSE IF Len(tVerts) = 3
    THEN [tVerts |-> << >>,
          oIndices |-> oIndices \o PushMatches(iVerts, Len(tVerts), 0, tVerts[i],
                                               PrevVert(tVerts, i), NextVert(tVerts, i))]
    ELSE IF Len(tVerts) = 4
    THEN [tVerts |-> << >>,
          oIndices |-> oIndices
                       \o PushMatches(iVerts, Len(iVerts), 0, tVerts[i],
                                      PrevVert(tVerts, i), NextVert(tVerts, i))
                       \o PushMatches(iVerts, Len(iVerts), 0, PrevVert(tVerts, i),
                                      NextVert(tVerts, i),
                                      TempVec(tVerts, tVerts[i], PrevVert(tVerts, i),
                                              NextVert(tVerts, i)))]
    ELSE IF AngleSkips \/ AnyInTri(iVerts, PrevVert(tVerts, i), tVerts[i], NextVert(tVerts, i))
    THEN ForVertex(iVerts, tVerts, oIndices, i + 1)
    ELSE ForVertex(iVerts, EraseFirst(tVerts, FirstAt(tVerts, tVerts[i])),
                   oIndices \o PushMatches(iVerts, Len(iVerts), 0, tVerts[i],
                                           PrevVert(tVerts, i), NextVert(tVerts, i)),
                   1)

\* while (true): it ends when a pass emitted nothing at all or left no
\* vertex; a pass that changes nothing is repeated for ever.
RECURSIVE WhilePass(_, _, _)
WhileNext(iVerts, before, r) ==
    IF Len(r.oIndices) = 0 \/ Len(r.tVerts) = 0
    THEN [oIndices |-> r.oIndices, returns |-> TRUE]
    ELSE IF r = before THEN [oIndices |-> r.oIndices, returns |-> FALSE]
    ELSE WhilePass(iVerts, r.tVerts, r.oIndices)
WhilePass(iVerts, tVerts, oIndices) ==
    WhileNext(iVerts, [tVerts |-> tVerts, oIndices |-> oIndices],
              ForVertex(iVerts, tVerts, oIndices, 1))

VertexTriangluation(iVerts) ==
    IF Len(iVerts) < 3 THEN [oIndices |-> << >>, returns |-> TRUE]
    ELSE IF Len(iVerts) = 3 THEN [oIndices |-> <<0, 1, 2>>, returns |-> TRUE]
    ELSE WhilePass(iVerts, iVerts, << >>)

(***************************************************************************)
(* The triangulation specification: VertexTriangluation applied to the     *)
(* vertex positions of one face.                                           *)
(***************************************************************************)
\* plane outlines, counter-clockwise
Outlines ==
    { << <<0, 0>>, <<2, 0>>, <<0, 2>> >>,
      << <<0, 0>>, <<2, 0>>, <<2, 2>>, <<0, 2>> >>,
      << <<0, 0>>, <<3, 0>>, <<2, 2>>, <<0, 1>> >>,
      << <<0, 0>>, <<2, 0>>, <<3, 1>>, <<2, 2>>, <<0, 2>> >>,
      << <<1, 0>>, <<3, 1>>, <<3, 3>>, <<1, 4>>, <<0, 2>> >>,
      << <<1, 0>>, <<2, 0>>, <<3, 1>>, <<2, 2>>, <<1, 2>>, <<0, 1>> >>,
      << <<0, 0>>, <<2, 0>>, <<3, 1>>, <<3, 2>>, <<1, 3>>, <<0, 2>> >> }
Rotated(o, k) == [i \in 1..Len(o) |-> o[((i + k - 1) % Len(o)) + 1]]
Reversed(o) == [i \in 1..Len(o) |-> o[Len(o) + 1 - i]]
Lifted(o, z) == [i \in 1..Len(o) |-> <<o[i][1], o[i][2], z>>]
Faces ==
    { Lifted(Rotated(o, k), z) : o \in Outlines, k \in 0..5, z \in 0..MaxPlaneZ }
    \cup { Lifted(Reversed(Rotated(o, k)), z) : o \in Outlines, k \in 0..5, z \in 0..MaxPlaneZ }

InitTri ==
    /\ HarnessIdle
    /\ world = EmptyWorld
    /\ \E f \in Faces : unit = [op |-> "new", iVerts |-> f]

Triangulated(r) ==
    unit' = [op |-> "VertexTriangluation", iVerts |-> unit.iVerts,
             oIndices |-> r.oIndices, returns |-> r.returns]

VertexTriangluationCall ==
    /\ unit.op = "new"
    /\ Triangulated(VertexTriangluation(unit.iVerts))
    /\ UNCHANGED <<runVars, renLog, world>>

NextTri == VertexTriangluationCall

SpecTri == InitTri /\ [][NextTri]_vars

(***************************************************************************)
(* objl::Loader::LoadFile: the line loop over "o"/"g", "v", "vt", "vn" and *)
(* "f" lines.  A string is a sequence of one-character strings.            *)
(***************************************************************************)
MaxFaces == 2

Digits == <<"0", "1", "2", "3", "4", "5", "6", "7", "8", "9">>
DigitValue(c) == (CHOOSE d \in 1..10 : Digits[d] = c) - 1

\* algorithm::split with a one-character token, from position i on: at a
\* token the text collected so far is pushed, empty or not
RECURSIVE SplitFrom(_, _, _, _, _)
SplitFrom(in, token, i, temp, out) ==
    IF i > Len(in) THEN out
    ELSE IF in[i] = token
    THEN SplitFrom(in, token, i + 1, << >>, Append(out, temp))
    ELSE IF i + 1 > Len(in) THEN Append(out, Append(temp, in[i]))
    ELSE SplitFrom(in, token, i + 1, Append(temp, in[i]), out)
Split(in, token) == SplitFrom(in, token, 1, << >>, << >>)

\* std::stoi on an optional sign and decimal digits
RECURSIVE StoiDigits(_, _, _)
StoiDigits(str, i, acc) ==
    IF i > Len(str) THEN acc ELSE StoiDigits(str, i + 1, 10 * acc + DigitValue(str[i]))
Stoi(str) == IF str[1] = "-" THEN 0 - StoiDigits(str, 2, 0) ELSE StoiDigits(str, 1, 0)

\* algorithm::getElement: 1-based index, a negative one counts from the end
ElementIndex(n, idx) == IF idx < 0 THEN n + idx ELSE idx - 1
getElement(elements, index) == elements[ElementIndex(Len(elements), Stoi(index)) + 1]

NewVertex == [Position |-> <<0, 0, 0>>, Normal |-> <<0, 0, 0>>, TextureCoordinate |-> <<0, 0>>]

\* lines 809-838
VType(svert) ==
    CASE Len(svert) = 1 -> 1
      [] Len(svert) = 2 -> 2
      [] Len(svert) = 3 -> IF svert[2] # << >> THEN 4 ELSE 3

\* the switch of lines 841-877 on vVert, which keeps what a case leaves alone
StoreVertex(vVert, svert, vtype, iPositions, iTCoords, iNormals) ==
    CASE vtype = 1 ->
           [vVert EXCEPT !.Position = getElement(iPositions, svert[1]),
                         !.TextureCoordinate = <<0, 0>>]
      [] vtype = 2 ->
           [vVert EXCEPT !.Position = getElement(iPositions, svert[1]),
                         !.TextureCoordinate = getElement(iTCoords, svert[2])]
      [] vtype = 3 ->
           [vVert EXCEPT !.Position = getElement(iPositions, svert[1]),
                         !.TextureCoordinate = <<0, 0>>,
                         !.Normal = getElement(iNormals, svert[3])]
      [] vtype = 4 ->
           [vVert EXCEPT !.Position = getElement(iPositions, svert[1]),
                         !.TextureCoordinate = getElement(iTCoords, svert[2]),
                         !.Normal = getElement(iNormals, svert[3])]

RECURSIVE FaceVertices(_, _, _, _, _, _, _)
FacePush(sface, i, vVert, oVerts, iPositions, iTCoords, iNormals) ==
    FaceVertices(sface, i + 1, vVert, Append(oVerts, vVert), iPositions, iTCoords, iNormals)
FaceVertices(sface, i, vVert, oVerts, iPositions, iTCoords, iNormals) ==
    IF i > Len(sface) THEN oVerts
    ELSE FacePush(sface, i,
                  StoreVertex(vVert, Split(sface[i], "/"), VType(Split(sface[i], "/")),
                              iPositions, iTCoords, iNormals),
                  oVerts, iPositions, iTCoords, iNormals)

NoNormal(sface) == \E i \in 1..Len(sface) : VType(Split(sface[i], "/")) \in {1, 2}

\* lines 884-895
SynthesizeNormal_PerVertex(oVerts) ==
    [i \in 1..Len(oVerts) |-> [oVerts[i] EXCEPT !.Normal = oVerts[i].Position]]
SynthesizeNormal(oVerts) ==
    [i \in 1..Len(oVerts) |->
        [oVerts[i] EXCEPT !.Normal = CrossV3(VSub(oVerts[1].Position, oVerts[2].Position),
                                             VSub(oVerts[3].Position, oVerts[2].Position))]]
MissingNormals(oVerts, noNormal) == IF noNormal THEN SynthesizeNormal(oVerts) ELSE oVerts

GenVerticesFromRawOBJ(iPositions, iTCoords, iNormals, sface) ==
    MissingNormals(FaceVertices(sface, 1, NewVertex, << >>, iPositions, iTCoords, iNormals),
                   NoNormal(sface))

PositionsOf(vVerts) == [i \in 1..Len(vVerts) |-> vVerts[i].Position]
\* indnum = (size - vVerts.size()) + iIndices[i]
Offset(iIndices, base) == [k \in 1..Len(iIndices) |-> base + iIndices[k]]

NewLoader ==
    [Positions |-> << >>, TCoords |-> << >>, Normals |-> << >>, Vertices |-> << >>,
     Indices |-> << >>, LoadedVertices |-> << >>, LoadedIndices |-> << >>,
     LoadedMeshes |-> << >>, listening |-> FALSE]

\* lines 540-585: an "o" or "g" line
ObjectLine(ld) ==
    IF ~ld.listening THEN [ld EXCEPT !.listening = TRUE]
    ELSE IF ld.Indices # << >> /\ ld.Vertices # << >>
    THEN [ld EXCEPT !.LoadedMeshes = Append(@, [Vertices |-> ld.Vertices, Indices |-> ld.Indices]),
                    !.Vertices = << >>, !.Indices = << >>]
    ELSE ld

\* lines 631-659: an "f" line
FaceIndexed(ld, vVerts, iIndices) ==
    [ld EXCEPT !.Vertices = @ \o vVerts,
               !.LoadedVertices = @ \o vVerts,
               !.Indices = @ \o Offset(iIndices, Len(ld.Vertices)),
               !.LoadedIndices = @ \o Offset(iIndices, Len(ld.LoadedVertices))]

\* lines 727-736: the last mesh
LastMesh(ld) ==
    IF ld.Indices # << >> /\ ld.Vertices # << >>
    THEN [ld EXCEPT !.LoadedMeshes = Append(@, [Vertices |-> ld.Vertices, Indices |-> ld.Indices])]
    ELSE ld

(***************************************************************************)
(* The loader specification: LoadFile reading one of a set of OBJ files    *)
(* line by line.                                                           *)
(***************************************************************************)
Str(n) == IF n < 0 THEN <<"-", Digits[1 - n]>> ELSE <<Digits[n + 1]>>
TokP(p) == Str(p)
TokPT(p, t) == Str(p) \o <<"/">> \o Str(t)
TokPN(p, n) == Str(p) \o <<"/", "/">> \o Str(n)
TokPTN(p, t, n) == Str(p) \o <<"/">> \o Str(t) \o <<"/">> \o Str(n)
FLine(sface) == [kind |-> "f", sface |-> sface]
FaceLines ==
    { FLine(<<TokPTN(1, 1, 1), TokPTN(2, 2, 2), TokPTN(3, 3, 3)>>),
      FLine(<<TokPTN(2, 3, 1), TokPTN(3, 1, 2), TokPTN(4, 2, 3)>>),
      FLine(<<TokP(1), TokP(2), TokP(3)>>),
      FLine(<<TokP(5), TokP(3), TokP(-4)>>),
      FLine(<<TokP(1), TokP(2), TokP(3), TokP(4)>>),
      FLine(<<TokPT(1, 1), TokPT(2, 2), TokPT(5, 3)>>),
      FLine(<<TokPN(1, 1), TokPN(2, 2), TokPN(3, 3)>>),
      FLine(<<TokPTN(1, 1, 1), TokP(5), TokP(3)>>) }
VLine(kind, val) == [kind |-> kind, val |-> val]
OLine == [kind |-> "o"]
FileHead ==
    << VLine("v", <<0, 0, 1>>), VLine("v", <<2, 0, 1>>), VLine("v", <<2, 2, 1>>),
       VLine("v", <<0, 2, 1>>), VLine("v", <<1, 1, 3>>),
       VLine("vt", <<0, 0>>), VLine("vt", <<1, 0>>), VLine("vt", <<1, 1>>),
       VLine("vn", <<0, 0, 1>>), VLine("vn", <<0, 1, 0>>), VLine("vn", <<1, 0, 0>>) >>
RECURSIVE FaceSeqs(_)
FaceSeqs(n) ==
    IF n = 0 THEN { << >> }
    ELSE { <<f>> \o r : f \in FaceLines, r \in FaceSeqs(n - 1) }
           \cup { <<f, OLine>> \o r : f \in FaceLines, r \in FaceSeqs(n - 1) }
ObjFiles ==
    UNION { { FileHead \o b, <<OLine>> \o FileHead \o b } : b \in FaceSeqs(MaxFaces) }

InitObj ==
    /\ HarnessIdle
    /\ world = EmptyWorld
    /\ \E file \in ObjFiles :
          unit = [op |-> "LoadFile", lines |-> file, ld |-> NewLoader, before |-> NewLoader]

LineRead(ld) ==
    unit' = [op |-> Head(unit.lines).kind, lines |-> Tail(unit.lines), ld |-> ld,
             before |-> unit.ld, line |-> Head(unit.lines)]
AtLine(kind) == unit.op # "return" /\ unit.lines # << >> /\ Head(unit.lines).kind = kind

LineO ==
    /\ AtLine("o")
    /\ LineRead(ObjectLine(unit.ld))
    /\ UNCHANGED <<runVars, renLog, world>>
LineV ==
    /\ AtLine("v")
    /\ LineRead([unit.ld EXCEPT !.Positions = Append(@, Head(unit.lines).val)])
    /\ UNCHANGED <<runVars, renLog, world>>
LineVt ==
    /\ AtLine("vt")
    /\ LineRead([unit.ld EXCEPT !.TCoords = Append(@, Head(unit.lines).val)])
    /\ UNCHANGED <<runVars, renLog, world>>
LineVn ==
    /\ AtLine("vn")
    /\ LineRead([unit.ld EXCEPT !.Normals = Append(@, Head(unit.lines).val)])
    /\ UNCHANGED <<runVars, renLog, world>>
FaceTriangulated(vVerts, r) ==
    /\ r.returns
    /\ LineRead(FaceIndexed(unit.ld, vVerts, r.oIndices))
FaceGenerated(vVerts) == FaceTriangulated(vVerts, VertexTriangluation(PositionsOf(vVerts)))
LineF ==
    /\ AtLine("f")
    /\ FaceGenerated(GenVerticesFromRawOBJ(unit.ld.Positions, unit.ld.TCoords,
                                           unit.ld.Normals, Head(unit.lines).sface))
    /\ UNCHANGED <<runVars, renLog, world>>
LoadFileReturn ==
    /\ unit.op # "return"
    /\ unit.lines = << >>
    /\ unit' = [op |-> "return", lines |-> << >>, ld |-> LastMesh(unit.ld), before |-> unit.ld]
    /\ UNCHANGED <<runVars, renLog, world>>

NextObj == LineO \/ LineV \/ LineVt \/ LineVn \/ LineF \/ LoadFileReturn

SpecObj == InitObj /\ [][NextObj]_vars

(***************************************************************************)
(* Transforms.  Transform.cpp, Actor::update, UserInterface::inspector*.   *)
(* Matrices are 4x4 integer tuples of rows (row-vector convention of       *)
(* DirectXMath).  Positions are counted in halves of a unit, angles in     *)
(* quarter turns, so that every sine and cosine is exact.                  *)
(***************************************************************************)
MaxXfFrames == 2

Row4(A, i) == A[i]
XMMatrixIdentity == << <<1, 0, 0, 0>>, <<0, 1, 0, 0>>, <<0, 0, 1, 0>>, <<0, 0, 0, 1>> >>
XMMatrixScaling(sx, sy, sz) ==
    << <<sx, 0, 0, 0>>, <<0, sy, 0, 0>>, <<0, 0, sz, 0>>, <<0, 0, 0, 1>> >>
XMMatrixTranslation(x, y, z) ==
    << <<1, 0, 0, 0>>, <<0, 1, 0, 0>>, <<0, 0, 1, 0>>, <<x, y, z, 1>> >>
QSin(q) == Sin90(q * 360)
QCos(q) == Cos90(q * 360)
XMMatrixRotationX(q) ==
    << <<1, 0, 0, 0>>, <<0, QCos(q), QSin(q), 0>>, <<0, -QSin(q), QCos(q), 0>>, <<0, 0, 0, 1>> >>
XMMatrixRotationY(q) ==
    << <<QCos(q), 0, -QSin(q), 0>>, <<0, 1, 0, 0>>, <<QSin(q), 0, QCos(q), 0>>, <<0, 0, 0, 1>> >>
XMMatrixRotationZ(q) ==
    << <<QCos(q), QSin(q), 0, 0>>, <<-QSin(q), QCos(q), 0, 0>>, <<0, 0, 1, 0>>, <<0, 0, 0, 1>> >>
XMMatrixMultiply(A, B) ==
    [i \in 1..4 |-> [j \in 1..4 |->
        A[i][1] * B[1][j] + A[i][2] * B[2][j] + A[i][3] * B[3][j] + A[i][4] * B[4][j]]]
XMMatrixTranspose(A) == [i \in 1..4 |-> [j \in 1..4 |-> A[j][i]]]
\* roll about Z, then pitch about X, then yaw about Y
XMMatrixRotationRollPitchYaw(pitch, yaw, roll) ==
    XMMatrixMultiply(XMMatrixMultiply(XMMatrixRotationZ(roll), XMMatrixRotationX(pitch)),
                     XMMatrixRotationY(yaw))

\* Transform::init and Transform::setTransform
TransformInit == [position |-> <<0, 0, 0>>, rotation |-> <<0, 0, 0>>, scale |-> <<1, 1, 1>>,
                  matrix |-> XMMatrixIdentity]
setTransform(t, newPos, newRot, newSca) ==
    [t EXCEPT !.position = newPos, !.rotation = newRot, !.scale = newSca]

\* Transform::update: matrix = scaleMatrix * rotationMatrix * translationMatrix
ComposeSRT(t) ==
    XMMatrixMultiply(
        XMMatrixMultiply(XMMatrixScaling(t.scale[1], t.scale[2], t.scale[3]),
                         XMMatrixRotationRollPitchYaw(t.rotation[1], t.rotation[2], t.rotation[3])),
        XMMatrixTranslation(t.position[1], t.position[2], t.position[3]))
TransformUpdate(t) == [t EXCEPT !.matrix = ComposeSRT(t)]

\* BaseApp::init, lines 204-208 and 261-265: the transforms of the scene;
\* Martis' pitch of -1.5 rad is counted as a quarter turn back
SceneTransforms ==
    (Martis :> setTransform(TransformInit, <<-1, -10, 0>>, <<-1, 0, 0>>, <<5, 5, 5>>)) @@
    (Plane :> setTransform(TransformInit, <<0, -10, 0>>, <<0, 0, 0>>, <<1, 1, 1>>))

\* vec3Control: a reset button or a drag writes one component of the vector
\* the accessor returned by reference
NoEdit == [field |-> "none", k |-> 0, value |-> 0]
XfEdits ==
    { NoEdit,
      [field |-> "position", k |-> 1, value |-> 0],
      [field |-> "position", k |-> 1, value |-> 2],
      [field |-> "rotation", k |-> 2, value |-> 1],
      [field |-> "scale", k |-> 1, value |-> 1],
      [field |-> "scale", k |-> 1, value |-> 2] }
vec3Control(values, ed) == [values EXCEPT ![ed.k] = ed.value]
inspectorContainer(t, ed) ==
    CASE ed.field = "position" -> [t EXCEPT !.position = vec3Control(t.position, ed)]
      [] ed.field = "rotation" -> [t EXCEPT !.rotation = vec3Control(t.rotation, ed)]
      [] ed.field = "scale" -> [t EXCEPT !.scale = vec3Control(t.scale, ed)]
      [] OTHER -> t

\* the transform state of the scene: per actor the Transform component,
\* m_model.mWorld and the content of the model constant buffer
NewXf == [op |-> "BaseApp::init", edit |-> NoEdit, edited |-> 0,
          t |-> SceneTransforms,
          mWorld |-> [a \in {Martis, Plane} |-> XMMatrixIdentity],
          cb |-> [a \in {Martis, Plane} |-> XMMatrixIdentity]]

\* Actor::update, lines 103-106: the components update, then mWorld is the
\* transpose of the Transform's matrix
ActorUpdateXf_MatrixBeforeComponents(x, a) ==
    [x EXCEPT !.mWorld[a] = XMMatrixTranspose(x.t[a].matrix),
              !.t[a] = TransformUpdate(x.t[a])]
ActorUpdateXf(x, a) ==
    [x EXCEPT !.t[a] = TransformUpdate(x.t[a]),
              !.mWorld[a] = XMMatrixTranspose(TransformUpdate(x.t[a]).matrix)]

\* the effect on the transforms of one call of BaseApp::update
XfEvent(x, e) ==
    CASE e.op = "inspectorGeneral" ->
            [x EXCEPT !.t[e.site[1]] = inspectorContainer(x.t[e.site[1]], x.edit),
                      !.edited = IF x.edit = NoEdit THEN 0 ELSE e.site[1]]
      [] e.op = "Actor::update" -> ActorUpdateXf(x, e.site[1])
      [] e.op = "UpdateSubresource" /\ e.site[2] = "m_modelBuffer" ->
            [x EXCEPT !.cb[e.site[1]] = x.mWorld[e.site[1]]]
      [] OTHER -> x
RECURSIVE XfReplay(_, _, _)
XfReplay(x, log, i) ==
    IF i > Len(log) THEN x ELSE XfReplay(XfEvent(x, log[i]), log, i + 1)

XfInputs == { Idle, [Idle EXCEPT !.click = 0, !.capture = TRUE],
              [Idle EXCEPT !.click = 1, !.capture = TRUE] }

InitXf ==
    /\ pc = "loop"
    /\ retVal = -1
    /\ calls = <<"init">>
    /\ world = BaseAppInit(EmptyWorld, GoodInit)
    /\ cam = NewCamera
    /\ window = [hWnd |-> TRUE, width |-> 1200, height |-> 1010]
    /\ msg = "0"
    /\ queue = << >>
    /\ quitPosted = FALSE
    /\ posted = 0
    /\ frames = 0
    /\ updLog = << >>
    /\ renLog = << >>
    /\ initHr = S_OK
    /\ unit = NewXf

XfUpdated(r, ed) ==
    unit' = XfReplay([unit EXCEPT !.op = "BaseApp::update", !.edit = ed, !.edited = 0],
                     r.log, 1)
UpdateXf(in, ed) ==
    /\ pc = "loop"
    /\ Updated(BaseAppUpdate(world, cam, in))
    /\ XfUpdated(BaseAppUpdate(world, cam, in), ed)
    /\ calls' = Append(calls, "update")
    /\ frames' = frames + 1
    /\ UNCHANGED <<retVal, window, msg, queue, quitPosted, posted, renLog, initHr>>
UpdateXfFrame ==
    frames < MaxXfFrames /\ \E in \in XfInputs : \E ed \in XfEdits : UpdateXf(in, ed)

NextXf == UpdateXfFrame \/ Render

SpecXf == InitXf /\ [][NextXf]_vars

(***************************************************************************)
(* DeviceContext.cpp: the entry points of the wrapper, called on a context *)
(* whose native handle exists.  A call is [fn, n, p]: the name of the      *)
(* entry point, its numeric arguments and its pointer arguments, each in   *)
(* the order of the signature.                                             *)
(***************************************************************************)
MaxDCCalls == 2
D3D11_PRIMITIVE_TOPOLOGY_UNDEFINED == 0
D3D11_PRIMITIVE_TOPOLOGY_TRIANGLELIST == 4
D3D11_CLEAR_DEPTH == 1
D3D11_CLEAR_STENCIL == 2

DCCall(fn, n, p) == [fn |-> fn, n |-> n, p |-> p]
\* ClearFlags & (D3D11_CLEAR_DEPTH | D3D11_CLEAR_STENCIL)
ClearBits(ClearFlags) == ClearFlags % (2 * D3D11_CLEAR_STENCIL)

\* the test each entry point makes before it forwards
Rejected(c) ==
    CASE c.fn = "RSSetViewports" -> c.p[1] = Null
      [] c.fn = "PSSetShaderResources" -> c.p[1] = Null
      [] c.fn = "IASetInputLayout" -> c.p[1] = Null
      [] c.fn = "VSSetShader" -> c.p[1] = Null
      [] c.fn = "PSSetShader" -> c.p[1] = Null
      [] c.fn = "UpdateSubresource" -> c.p[1] = Null \/ c.p[3] = Null
      [] c.fn = "IASetVertexBuffers" -> c.p[1] = Null \/ c.p[2] = Null \/ c.p[3] = Null
      [] c.fn = "IASetIndexBuffer" -> c.p[1] = Null
      [] c.fn = "PSSetSamplers" -> c.p[1] = Null
      [] c.fn = "RSSetState" -> c.p[1] = Null
      [] c.fn = "OMSetBlendState" -> c.p[1] = Null
      [] c.fn = "OMSetRenderTargets" ->
            \/ c.p[1] = Null /\ c.p[2] = Null
            \/ c.n[1] > 0 /\ c.p[1] = Null
      [] c.fn = "IASetPrimitiveTopology" -> c.n[1] = D3D11_PRIMITIVE_TOPOLOGY_UNDEFINED
      [] c.fn = "ClearRenderTargetView" -> c.p[1] = Null \/ c.p[2] = Null
      [] c.fn = "ClearDepthStencilView" -> c.p[1] = Null \/ ClearBits(c.n[1]) = 0
      [] c.fn = "VSSetConstantBuffers" -> c.p[1] = Null
      [] c.fn = "PSSetConstantBuffers" -> c.p[1] = Null
      [] c.fn = "DrawIndexed" -> c.n[1] = 0
      [] OTHER -> FALSE

\* the entry points that set pipeline state, and the state of a fresh context
StateSetters ==
    {"RSSetViewports", "PSSetShaderResources", "IASetInputLayout", "VSSetShader", "PSSetShader",
     "IASetVertexBuffers", "IASetIndexBuffer", "PSSetSamplers", "RSSetState", "OMSetBlendState",
     "OMSetRenderTargets", "IASetPrimitiveTopology", "VSSetConstantBuffers",
     "PSSetConstantBuffers"}
Unset == DCCall("unset", << >>, << >>)
NewDeviceContext ==
    [op |-> "DeviceContext", last |-> Unset, count |-> 0, forwarded |-> FALSE,
     native |-> << >>, errors |-> << >>,
     pipeline |-> [f \in StateSetters |-> Unset], before |-> [f \in StateSetters |-> Unset]]

\* m_deviceContext-><fn>(the arguments as received)
NativeCall(dc, c) ==
    [dc EXCEPT !.native = Append(dc.native, c),
               !.pipeline = IF c.fn \in StateSetters
                            THEN [dc.pipeline EXCEPT ![c.fn] = c] ELSE dc.pipeline,
               !.forwarded = TRUE]
\* ERROR("DeviceContext", fn, ...); return;
LogError(dc, c) == [dc EXCEPT !.errors = Append(dc.errors, c.fn), !.forwarded = FALSE]

EntryPoint_Unchecked(dc, c) == NativeCall(dc, c)
EntryPoint(dc, c) == IF Rejected(c) THEN LogError(dc, c) ELSE NativeCall(dc, c)

\* a caller's arguments: two live objects and the null pointer, small numbers
ArgA == <<9, "arg", 1>>
ArgB == <<9, "arg", 2>>
Ptrs == {Null, ArgA}
OnePtr(fn, n) == { DCCall(fn, n, <<p>>) : p \in Ptrs }
DCCalls ==
    OnePtr("RSSetViewports", <<1>>) \cup OnePtr("PSSetShaderResources", <<0, 1>>)
    \cup OnePtr("IASetInputLayout", << >>)
    \cup { DCCall("VSSetShader", <<0>>, <<p, Null>>) : p \in Ptrs }
    \cup { DCCall("PSSetShader", <<0>>, <<p, Null>>) : p \in {Null, ArgA, ArgB} }
    \cup { DCCall("UpdateSubresource", <<0, 0, 0>>, <<p, Null, q>>) : p \in Ptrs, q \in Ptrs }
    \cup { DCCall("IASetVertexBuffers", <<0, 1>>, <<p, q, ArgB>>) : p \in Ptrs, q \in Ptrs }
    \cup { DCCall("IASetVertexBuffers", <<0, 1>>, <<ArgA, ArgA, Null>>) }
    \cup OnePtr("IASetIndexBuffer", <<42, 0>>) \cup OnePtr("PSSetSamplers", <<0, 1>>)
    \cup OnePtr("RSSetState", << >>)
    \cup { DCCall("OMSetBlendState", <<0>>, <<p, Null>>) : p \in Ptrs }
    \cup { DCCall("OMSetRenderTargets", <<n>>, <<p, q>>) : n \in {0, 1}, p \in Ptrs, q \in Ptrs }
    \cup { DCCall("IASetPrimitiveTopology", <<t>>, << >>) :
             t \in {D3D11_PRIMITIVE_TOPOLOGY_UNDEFINED, D3D11_PRIMITIVE_TOPOLOGY_TRIANGLELIST} }
    \cup { DCCall("ClearRenderTargetView", << >>, <<p, q>>) : p \in Ptrs, q \in Ptrs }
    \cup { DCCall("ClearDepthStencilView", <<f, 1, 0>>, <<p>>) :
             f \in {0, D3D11_CLEAR_DEPTH, D3D11_CLEAR_STENCIL, 4}, p \in Ptrs }
    \cup OnePtr("VSSetConstantBuffers", <<2, 1>>) \cup OnePtr("PSSetConstantBuffers", <<2, 1>>)
    \cup { DCCall("DrawIndexed", <<n, 0, 0>>, << >>) : n \in {0, 3} }

InitDC == HarnessIdle /\ world = EmptyWorld /\ unit = NewDeviceContext

DeviceContextCall ==
    /\ unit.op = "DeviceContext"
    /\ unit.count < MaxDCCalls
    /\ \E c \in DCCalls :
          unit' = EntryPoint([unit EXCEPT !.last = c, !.count = unit.count + 1,
                                          !.before = unit.pipeline], c)
    /\ UNCHANGED <<world, renLog>>
    /\ UNCHANGED runVars

NextDC == DeviceContextCall

SpecDC == InitDC /\ [][NextDC]_vars

(***************************************************************************)
(* The scene specification: the frames of a run whose init() succeeded,    *)
(* with Actor::setCastShadow called on the actors of the scene between     *)
(* frames.  The pixel shader and the depth-stencil state bound on the      *)
(* native context persist from one frame to the next.                      *)
(***************************************************************************)
MaxCastFrames == 3

\* the object the last `op` event before position i of the log bound, or
\* `prev` (what was bound when the log began)
BoundAt(log, i, op, prev) ==
    IF \E j \in 1..(i - 1) : log[j].op = op
    THEN log[CHOOSE j \in 1..(i - 1) :
                 log[j].op = op /\ \A k \in (j + 1)..(i - 1) : log[k].op # op].site
    ELSE prev

InitCast ==
    /\ pc = "loop"
    /\ retVal = -1
    /\ calls = <<"init">>
    /\ world = BaseAppInit(EmptyWorld, GoodInit)
    /\ cam = NewCamera
    /\ window = [hWnd |-> TRUE, width |-> 1200, height |-> 1010]
    /\ msg = "0"
    /\ queue = << >>
    /\ quitPosted = FALSE
    /\ posted = 0
    /\ frames = 0
    /\ updLog = << >>
    /\ renLog = << >>
    /\ initHr = S_OK
    /\ unit = [op |-> "BaseApp::init", ps0 |-> Null, dss0 |-> Null, ps |-> Null, dss |-> Null]

\* Actor::setCastShadow(v) on an actor of the scene
CastSetCastShadow ==
    /\ pc = "loop"
    /\ \E a \in {Martis, Plane} :
          world' = SetCast(world, a, ~world.actors[a].castShadow,
                           world.actors[a].m_receiveShadow)
    /\ UNCHANGED <<unit, runVars, renLog>>

CastUpdate == frames < MaxCastFrames /\ Update(Idle)

\* the native context after the calls of this frame
CastRendered(r) ==
    unit' = [op |-> "BaseApp::render", ps0 |-> unit.ps, dss0 |-> unit.dss,
             ps |-> BoundAt(r.log, Len(r.log) + 1, "PSSetShader", unit.ps),
             dss |-> BoundAt(r.log, Len(r.log) + 1, "OMSetDepthStencilState", unit.dss)]
CastRender ==
    /\ pc = "updated"
    /\ \E ub \in UBOutcomes :
          /\ Rendered(BaseAppRender(world, ub))
          /\ CastRendered(BaseAppRender(world, ub))
    /\ calls' = Append(calls, "render")
    /\ UNCHANGED <<retVal, world, cam, window, msg, queue, quitPosted, posted, frames,
                   updLog, initHr>>

NextCast == CastSetCastShadow \/ CastUpdate \/ CastRender

SpecCast == InitCast /\ [][NextCast]_vars

(***************************************************************************)
(* The user-interface specification: BaseApp::init has returned, with      *)
(* success or with the failure of one of its steps; then                   *)
(* UserInterface::destroy, BaseApp::destroy and UserInterface::init are    *)
(* called in any order.                                                    *)
(***************************************************************************)
MaxUICalls == 3

Windowed(in) ==
    [F |-> in.F, files |-> in.files, fbxOk |-> in.fbxOk, meshes |-> in.meshes,
     hWnd |-> TRUE, width |-> 1200, height |-> 1010]
UICalled(op) ==
    [op |-> op, n |-> unit.n + 1, initHr |-> unit.initHr,
     inits |-> unit.inits + (IF op = "UserInterface::init" THEN 1 ELSE 0),
     initializedBefore |-> world.ui.m_imguiInitialized /\ world.ui.ctx,
     shutdownsBefore |-> Cardinality({ i \in 1..Len(world.log) :
                                         world.log[i].op = "ImGuiShutdown" })]

InitUI ==
    /\ HarnessIdle
    /\ \E in \in InitInputs : world = BaseAppInit(EmptyWorld, Windowed(in))
    /\ unit = [op |-> "BaseApp::init", n |-> 0, initHr |-> world.hr, inits |-> 0,
               initializedBefore |-> FALSE, shutdownsBefore |-> 0]

UserInterfaceDestroyCall ==
    /\ unit.n < MaxUICalls
    /\ world' = UserInterfaceDestroy(world)
    /\ unit' = UICalled("UserInterface::destroy")
    /\ UNCHANGED <<runVars, renLog>>

BaseAppDestroyCall ==
    /\ unit.n < MaxUICalls
    /\ world' = BaseAppDestroy(world)
    /\ unit' = UICalled("BaseApp::destroy")
    /\ UNCHANGED <<runVars, renLog>>

\* UserInterface::init on an application that holds no ImGui context
UserInterfaceInitCall ==
    /\ unit.n < MaxUICalls
    /\ ~world.ui.ctx
    /\ world' = UserInterfaceInit(world, TRUE, Get(world, fDevice), Get(world, fContext))
    /\ unit' = UICalled("UserInterface::init")
    /\ UNCHANGED <<runVars, renLog>>

NextUI == UserInterfaceDestroyCall \/ BaseAppDestroyCall \/ UserInterfaceInitCall

SpecUI == InitUI /\ [][NextUI]_vars

(***************************************************************************)
(* The selection specification: frames of BaseApp::update on a scene of    *)
(* zero, one or two actors, the public selectedActorIndex starting at any  *)
(* value.                                                                  *)
(***************************************************************************)
MaxSelFrames == 3

SelIndices == {-1, 0, 1, 2, 7}
SelInputs == { Idle, [Idle EXCEPT !.click = 0, !.capture = TRUE],
               [Idle EXCEPT !.click = 1, !.capture = TRUE] }
SceneOf(n, index) ==
    [BaseAppInit(EmptyWorld, GoodInit)
        EXCEPT !.m_actors = SubSeq(@, 1, n), !.ui.selectedActorIndex = index]

InitSel ==
    /\ pc = "loop"
    /\ retVal = -1
    /\ calls = <<"init">>
    /\ \E n \in 0..2, index \in SelIndices :
          /\ world = SceneOf(n, index)
          /\ unit = [op |-> "scene", index0 |-> index]
    /\ cam = NewCamera
    /\ window = [hWnd |-> TRUE, width |-> 1200, height |-> 1010]
    /\ msg = "0"
    /\ queue = << >>
    /\ quitPosted = FALSE
    /\ posted = 0
    /\ frames = 0
    /\ updLog = << >>
    /\ renLog = << >>
    /\ initHr = S_OK

SelUpdate == frames < MaxSelFrames /\ \E in \in SelInputs : Update(in)

NextSel == SelUpdate \/ Render

SpecSel == InitSel /\ [][NextSel]_vars

(***************************************************************************)
(* The triangulation of arbitrary vertex lists: the outlines above and     *)
(* non-convex outlines, outlines with collinear vertices and with a        *)
(* repeated position.                                                      *)
(***************************************************************************)
AnyOutlines ==
    { << <<0, 0>>, <<4, 0>>, <<1, 1>>, <<0, 4>> >>,
      << <<0, 0>>, <<1, 0>>, <<2, 0>>, <<2, 2>>, <<0, 2>> >>,
      << <<0, 0>>, <<1, 0>>, <<2, 0>>, <<3, 0>>, <<4, 0>> >>,
      << <<0, 0>>, <<2, 0>>, <<2, 2>>, <<2, 0>>, <<0, 2>> >>,
      << <<0, 0>>, <<3, 0>>, <<3, 3>>, <<2, 1>>, <<1, 1>>, <<0, 3>> >>,
      << <<1, 1>>, <<1, 2>>, <<2, 2>>, <<3, 1>>, <<3, 2>>, <<0, 3>>, <<1, 0>> >> }
AnyFaces ==
    { Lifted(Rotated(o, k), z) : o \in AnyOutlines, k \in 0..6, z \in 0..MaxPlaneZ }

InitTriAny ==
    /\ HarnessIdle
    /\ world = EmptyWorld
    /\ \E f \in Faces \cup AnyFaces : unit = [op |-> "new", iVerts |-> f]

SpecTriAny == InitTriAny /\ [][NextTri]_vars

(***************************************************************************)
(* The capture specification: frames of BaseApp::update under cursor,      *)
(* wheel and button inputs, with and without the UI capturing the mouse;   *)
(* the frame's input and the camera before the call are kept.              *)
(***************************************************************************)
MaxCapFrames == 3

CapMoves ==
    { [Idle EXCEPT !.rmb = TRUE],
      [Idle EXCEPT !.rmb = TRUE, !.cx = 360, !.cy = 400],
      [Idle EXCEPT !.wheel = 1],
      [Idle EXCEPT !.wheel = -1],
      [Idle EXCEPT !.mmb = TRUE, !.cx = 40, !.cy = 40],
      [Idle EXCEPT !.rmb = TRUE, !.mmb = TRUE, !.cx = 720, !.cy = 40, !.wheel = 1] }
CapInputs == {Idle} \cup CapMoves \cup { [in EXCEPT !.capture = TRUE] : in \in CapMoves }

InitCap ==
    /\ pc = "loop"
    /\ retVal = -1
    /\ calls = <<"init">>
    /\ world = BaseAppInit(EmptyWorld, GoodInit)
    /\ cam = NewCamera
    /\ window = [hWnd |-> TRUE, width |-> 1200, height |-> 1010]
    /\ msg = "0"
    /\ queue = << >>
    /\ quitPosted = FALSE
    /\ posted = 0
    /\ frames = 0
    /\ updLog = << >>
    /\ renLog = << >>
    /\ initHr = S_OK
    /\ unit = [op |-> "BaseApp::init", in |-> Idle, before |-> NewCamera]

CapUpdate(in) ==
    /\ pc = "loop"
    /\ Updated(BaseAppUpdate(world, cam, in))
    /\ unit' = [op |-> "BaseApp::update", in |-> in, before |-> cam]
    /\ calls' = Append(calls, "update")
    /\ frames' = frames + 1
    /\ UNCHANGED <<retVal, window, msg, queue, quitPosted, posted, renLog, initHr>>
CapUpdateFrame == frames < MaxCapFrames /\ \E in \in CapInputs : CapUpdate(in)

NextCap == CapUpdateFrame \/ Render

SpecCap == InitCap /\ [][NextCap]_vars

(***************************************************************************)
(* Properties                                                              *)
(***************************************************************************)
Count(seq, x) == Cardinality({ i \in 1..Len(seq) : seq[i] = x })
Positions(log, op) == { i \in 1..Len(log) : log[i].op = op }
HasEvent(log, op) == \E i \in 1..Len(log) : log[i].op = op
IndexOf(log, op) == CHOOSE i \in 1..Len(log) : log[i].op = op /\ \A j \in 1..(i - 1) : log[j].op # op

\* C2: when BaseApp::init fails, run() calls destroy() exactly once, calls
\* neither update() nor render(), never enters the message loop, and returns 0.
C2_FailedInitDestroysAndReturnsZero ==
    FAILED(initHr) =>
        /\ pc = "done"
        /\ retVal = 0
        /\ calls = <<"init", "destroy">>
        /\ Count(calls, "destroy") = 1
        /\ frames = 0 /\ updLog = << >> /\ renLog = << >>
        /\ Cardinality(Positions(world.log, "BaseApp::destroy")) = 1

\* a failed init whose destroy() had objects to release
C2_Witness ==
    /\ FAILED(initHr)
    /\ pc = "done"
    /\ HasEvent(world.log, "release")
    /\ Cardinality(Positions(world.log, "initStep")) >= 3

\* the number of `op` events among the first i events of log
Rank(log, op, i) == Cardinality({ j \in 1..i : log[j].op = op })
\* the last event of a non-empty log
Last(log) == log[Len(log)]

\* C1: when Window::init and BaseApp::init succeed, the calls of run() are
\* init, then (update, render) pairs with every update immediately followed by
\* its render, then destroy exactly once, which is the last call.
C1_RunCallSequence ==
    (pc \in {"done", "exited"} /\ calls # << >> /\ SUCCEEDED(initHr)) =>
        /\ calls[1] = "init"
        /\ Count(calls, "init") = 1
        /\ \A i \in 1..Len(calls) :
              /\ calls[i] = "update" => (i < Len(calls) /\ calls[i + 1] = "render")
              /\ calls[i] = "render" => calls[i - 1] = "update"
        /\ Last(calls) = "destroy"
        /\ Count(calls, "destroy") = 1

\* the creation steps of BaseApp::init, in source order
StepNames ==
    <<"SwapChain", "RenderTargetView", "DepthStencil", "DepthStencilView", "Viewport",
      "ShaderProgram", "CBNeverChanges", "CBChangeOnResize", "LoadFBXModel">>
\* what init() can have logged: everything but the teardown events
InitOps == {"create", "createFail", "D3D11CreateDevice", "initStep", "viewportSet",
            "ImGuiInit", "Texture::init", "ShaderProgram::CreateShader", "ERROR"}

\* C3: the steps of BaseApp::init run in the fixed order; the first step that
\* fails is the last thing init does, init returns that step's status (for a
\* resource step the code of the native call that failed), and neither a later
\* step nor the ImGui initialization runs.
C3_InitStepsInOrderFirstFailureReturns ==
    /\ \A i \in Positions(world.log, "initStep") :
          /\ Rank(world.log, "initStep", i) <= Len(StepNames)
          /\ world.log[i].site[2] = StepNames[Rank(world.log, "initStep", i)]
          /\ FAILED(world.log[i].hr) =>
                /\ initHr = world.log[i].hr
                /\ \A j \in (i + 1)..Len(world.log) : world.log[j].op \notin InitOps
                /\ (world.log[i].site[2] # "LoadFBXModel"
                      /\ world.log[i - 1].op \in {"createFail", "D3D11CreateDevice"})
                      => world.log[i].hr = world.log[i - 1].hr
    /\ FAILED(initHr) =>
          \E i \in Positions(world.log, "initStep") : FAILED(world.log[i].hr)

\* init() stopped at a step in the middle of the sequence, on a native code
C3_Witness ==
    /\ FAILED(initHr)
    /\ initHr.code = "NATIVE"
    /\ Cardinality(Positions(world.log, "initStep")) \in 4..7
    /\ ~HasEvent(world.log, "ImGuiInit")

\* C4: once run() has returned after a successful init, every native object
\* that was created has been released exactly once.
C4_EveryHandleReleasedOnce ==
    (pc = "done" /\ calls # << >> /\ SUCCEEDED(initHr)) =>
        \A o \in DOMAIN world.rel : world.rel[o] = 1

\* the position of a released object in the order of BaseApp::destroy
DestroyClass(o) ==
    IF o = fDevice THEN 7
    ELSE IF o = fContext THEN 6
    ELSE IF o \in {fSwapChain, fDxgiDevice, fDxgiAdapter, fDxgiFactory} THEN 5
    ELSE IF o \in {fDepthTex, fDepthSRV, fDSV, fRTV} THEN 4
    ELSE IF o \in {fVS(0), fPS(0), fLayout(0), BlobObj(0, VERTEX_SHADER),
                   BlobObj(0, PIXEL_SHADER)} THEN 3
    ELSE IF o \in {fViewCB, fProjCB} THEN 2
    ELSE 1
\* where destroy() starts in the log, 0 when it has not been called
DestroyStart(log) ==
    IF HasEvent(log, "BaseApp::destroy") THEN IndexOf(log, "BaseApp::destroy") ELSE 0

\* C5: in BaseApp::destroy the ImGui shutdown precedes every release, the
\* releases follow the order actors, camera constant buffers, shader program,
\* depth/target views, swap chain, device context, device, and the release of
\* the device is the last thing destroy does.
C5_DestroyOrder ==
    DestroyStart(world.log) > 0 =>
        /\ \A i \in (DestroyStart(world.log) + 1)..Len(world.log) :
              /\ world.log[i].op \in {"ImGuiShutdown", "ClearState", "release"}
              /\ world.log[i].op = "ImGuiShutdown" => i = DestroyStart(world.log) + 1
              /\ world.log[i].op = "release" =>
                    \A j \in (i + 1)..Len(world.log) :
                        /\ world.log[j].op = "release"
                        /\ DestroyClass(world.log[i].site) <= DestroyClass(world.log[j].site)
              /\ (world.log[i].op = "release" /\ world.log[i].site = fDevice)
                    => i = Len(world.log)
        /\ HasEvent(world.log, "ImGuiInit") =>
              world.log[DestroyStart(world.log) + 1].op = "ImGuiShutdown"
        /\ fDevice \in DOMAIN world.rel =>
              (Last(world.log).op = "release" /\ Last(world.log).site = fDevice)

\* destroy() after a successful init and at least one frame: ImGui was shut
\* down, objects of every class were released, the device went last
C5_Witness ==
    /\ pc = "done"
    /\ SUCCEEDED(initHr)
    /\ frames > 0
    /\ HasEvent(world.log, "ImGuiShutdown")
    /\ Last(world.log).site = fDevice
    /\ \A c \in 1..7 :
          \E i \in (DestroyStart(world.log) + 1)..Len(world.log) :
              world.log[i].op = "release" /\ DestroyClass(world.log[i].site) = c

\* the events that record what an operation returned to its caller
ReturnOps == {"initStep", "Texture::init", "ShaderProgram::CreateShader"}

\* C6: an operation whose native creation call failed returns the code of
\* that call, never S_OK.
C6_CreationFailurePropagates ==
    \A i \in 2..Len(world.log) :
        (world.log[i].op \in ReturnOps /\ world.log[i - 1].op = "createFail")
            => world.log[i].hr = world.log[i - 1].hr

\* the calls BaseApp::render issues before the first actor, in source order
RenderPrologue ==
    << Call("OMSetRenderTargets", fRTV, 0),
       Call("ClearRenderTargetView", fRTV, 0),
       Call("ClearDepthStencilView", fDSV, 0),
       Call("RSSetViewports", NoSite, 0),
       Call("ClearDepthStencilView", fDSV, 0),
       Call("IASetInputLayout", fLayout(0), 0),
       Call("VSSetShader", fVS(0), 0),
       Call("PSSetShader", fPS(0), 0),
       Call("VSSetConstantBuffers", fViewCB, 0),
       Call("VSSetConstantBuffers", fProjCB, 1) >>

\* C7: a render() binds and clears the targets, binds viewport and shader
\* program, binds the view buffer to slot 0 and the projection buffer to slot
\* 1, renders the actors in list order, each once, then the ImGui layer, and
\* presents last; every draw call lies between the clear and the ImGui render.
C7_RenderOrder ==
    (renLog # << >> /\ pc # "done") =>
        /\ Len(renLog) >= Len(RenderPrologue)
        /\ \A i \in 1..Len(RenderPrologue) : renLog[i] = RenderPrologue[i]
        /\ \A i \in Positions(renLog, "Actor::render") :
              /\ i > Len(RenderPrologue)
              /\ Rank(renLog, "Actor::render", i) <= Len(world.m_actors)
              /\ renLog[i].site[1] = world.m_actors[Rank(renLog, "Actor::render", i)]
        /\ \A i \in Positions(renLog, "DrawIndexed") :
              /\ i > IndexOf(renLog, "ClearRenderTargetView")
              /\ i > IndexOf(renLog, "Actor::render")
              /\ \A j \in Positions(renLog, "ImGuiRender") : i < j
        /\ pc # "crashed" =>
              /\ Cardinality(Positions(renLog, "Actor::render")) = Len(world.m_actors)
              /\ Positions(renLog, "ImGuiRender") = {Len(renLog) - 1}
              /\ Positions(renLog, "Present") = {Len(renLog)}

\* a render() that returned after drawing both actors
C7_Witness ==
    /\ pc = "loop"
    /\ Len(world.m_actors) = 2
    /\ Cardinality(Positions(renLog, "DrawIndexed")) = 2
    /\ Last(renLog).op = "Present"

\* C8: an update() advances the ImGui frame first, recomputes the view
\* before uploading the view buffer, uploads the view buffer before the
\* projection buffer, and after both uploads updates the actors in list order,
\* each once.
C8_UpdateOrder ==
    (updLog # << >> /\ pc # "done") =>
        /\ updLog[1].op = "ImGuiNewFrame"
        /\ Cardinality(Positions(updLog, "ImGuiNewFrame")) = 1
        /\ \A i \in Positions(updLog, "UpdateSubresource") :
              /\ updLog[i].site = fViewCB =>
                    /\ \E v \in Positions(updLog, "ViewRecomputed") : v < i
                    /\ \E j \in (i + 1)..Len(updLog) :
                          updLog[j].op = "UpdateSubresource" /\ updLog[j].site = fProjCB
              /\ updLog[i].site = fProjCB =>
                    \E j \in 1..(i - 1) :
                          updLog[j].op = "UpdateSubresource" /\ updLog[j].site = fViewCB
        /\ \A i \in Positions(updLog, "Actor::update") :
              /\ \E j \in 1..(i - 1) :
                    updLog[j].op = "UpdateSubresource" /\ updLog[j].site = fProjCB
              /\ Rank(updLog, "Actor::update", i) <= Len(world.m_actors)
              /\ updLog[i].site[1] = world.m_actors[Rank(updLog, "Actor::update", i)]
        /\ pc # "exited" =>
              /\ Cardinality(Positions(updLog, "ViewRecomputed")) = 1
              /\ Cardinality({ i \in Positions(updLog, "UpdateSubresource") :
                                 updLog[i].site \in {fViewCB, fProjCB} }) = 2
              /\ Cardinality(Positions(updLog, "Actor::update")) = Len(world.m_actors)

\* an update() that returned after updating both actors
C8_Witness ==
    /\ pc = "updated"
    /\ Len(world.m_actors) = 2
    /\ Cardinality(Positions(updLog, "Actor::update")) = 2
    /\ Last(updLog).op = "UpdateSubresource"

\* C9: after any sequence of update() calls the camera pitch lies in
\* [-89, 89] degrees and the camera distance in [2, 50].
C9_CameraWithinClamps ==
    /\ PitchMin4 <= cam.pitch4 /\ cam.pitch4 <= PitchMax4
    /\ DistMin <= cam.dist /\ cam.dist <= DistMax

\* zooming and orbiting have both run into a clamp
C9_Witness ==
    /\ frames > 0
    /\ cam.dist \in {DistMin, DistMax}
    /\ cam.pitch4 \in {PitchMin4, PitchMax4}

\* the attempts of BaseApp::init for the textures of one actor, in source order
MartisChain == << <<"axl_D", PNG>>, <<"axl_wq_D", PNG>>, <<"Default", DDS>>, <<"Default", PNG>> >>
PlaneChain == << <<"piedra", JPG>>, <<"piedra", PNG>>, <<"Default", DDS>>, <<"Default", PNG>> >>
\* the Texture::init calls made on the textures of owner o
Attempts(log, o) == { i \in 1..Len(log) : log[i].op = "Texture::init" /\ log[i].site[1] = o }
AttemptRank(log, o, i) == Cardinality({ j \in Attempts(log, o) : j <= i })
\* the attempts follow the chain, each one made only after all before it
\* failed, and the chain ends on a success or at its end
FollowsChain(log, o, chain) ==
    /\ \A i \in Attempts(log, o) :
          /\ AttemptRank(log, o, i) <= Len(chain)
          /\ <<log[i].site[2], log[i].site[3]>> = chain[AttemptRank(log, o, i)]
          /\ \A j \in Attempts(log, o) : j < i => FAILED(log[j].hr)
    /\ Attempts(log, o) # {} =>
          \E i \in Attempts(log, o) :
              SUCCEEDED(log[i].hr) \/ AttemptRank(log, o, i) = Len(chain)

\* C10: in BaseApp::init the alternate texture is attempted only after the
\* primary attempt failed, the default asset only after both failed, nothing
\* is attempted after a success, and the chain gives up only after primary,
\* alternate and default asset were all attempted.
C10_TextureFallbackChain ==
    /\ FollowsChain(world.log, Martis, MartisChain)
    /\ FollowsChain(world.log, 0, PlaneChain)
    /\ \A i \in Positions(world.log, "ERROR") :
          Cardinality({ j \in Attempts(world.log, Martis) : j < i }) = Len(MartisChain)

\* the character's chain stopped at the default asset, the floor's chain at
\* its alternate file
C10_Witness ==
    /\ Cardinality(Attempts(world.log, Martis)) = 3
    /\ Cardinality(Attempts(world.log, 0)) = 2
    /\ \E i \in Attempts(world.log, Martis) : SUCCEEDED(world.log[i].hr)
    /\ \E i \in Attempts(world.log, 0) : SUCCEEDED(world.log[i].hr)

\* C11: Texture::init loads the file for each of DDS, PNG and JPG: called with
\* a device, a name, a file of that format that exists and native calls that
\* succeed, it returns success and leaves a shader-resource view.
C11_EveryExtensionTypeLoads ==
    (/\ unit.op = "Texture::init"
     /\ Get(world, fDevice) # Null
     /\ unit.name # ""
     /\ unit.exists
     /\ unit.F = {})
        => (SUCCEEDED(unit.hr) /\ unit.srv # Null)

\* the calls that name the geometry of a draw
GeoOps == {"IASetVertexBuffers", "IASetIndexBuffer", "DrawIndexed"}
\* the draw calls Actor::render issued in one pass
Draws(log, pass) ==
    { i \in 1..Len(log) : log[i].op = "DrawIndexed" /\ log[i].site[2] = pass }
\* where the opaque pass sets its topology: the shadow pass lies before it
OpaqueStart(log) ==
    CHOOSE i \in Positions(log, "IASetPrimitiveTopology") :
        \A j \in Positions(log, "IASetPrimitiveTopology") : j <= i
Geo(log, lo, hi) == { i \in lo..hi : log[i].op \in GeoOps }
\* two calls bind the same buffer or draw the same mesh with the same count
SameGeometry(e, f) ==
    /\ e.op = f.op
    /\ e.slot = f.slot
    /\ IF e.op = "DrawIndexed"
       THEN e.site[1] = f.site[1] /\ e.site[3] = f.site[3]
       ELSE e.site = f.site

\* C12: an actor with castShadow set issues all its shadow-pass draws before
\* its opaque-pass draws, one per mesh, with the vertex buffer, index buffer
\* and index count of the opaque pass; with castShadow clear it issues no
\* shadow-pass draw.
C12_ShadowPassBeforeOpaquePass ==
    (unit.op = "Actor::render" /\ ~unit.crashed) =>
        IF world.actors[Martis].castShadow
        THEN /\ \A i \in Draws(renLog, "shadow") : \A j \in Draws(renLog, "opaque") : i < j
             /\ \A m \in 1..Len(world.actors[Martis].meshes) :
                   Cardinality({ i \in Draws(renLog, "shadow") : renLog[i].site[3] = m })
                     = IF world.actors[Martis].meshes[m].numIndex = 0 THEN 0 ELSE 1
             /\ Cardinality(Geo(renLog, 1, OpaqueStart(renLog)))
                   = Cardinality(Geo(renLog, OpaqueStart(renLog), Len(renLog)))
             /\ \A i \in Geo(renLog, 1, OpaqueStart(renLog)) :
                   \E j \in Geo(renLog, OpaqueStart(renLog), Len(renLog)) :
                       /\ Cardinality(Geo(renLog, 1, i))
                            = Cardinality(Geo(renLog, OpaqueStart(renLog), j))
                       /\ SameGeometry(renLog[i], renLog[j])
        ELSE Draws(renLog, "shadow") = {}

\* a shadow-casting actor with two meshes was rendered
C12_Witness ==
    /\ unit.op = "Actor::render"
    /\ ~unit.crashed
    /\ world.actors[Martis].castShadow
    /\ Cardinality(Draws(renLog, "shadow")) = 2
    /\ Cardinality(Draws(renLog, "opaque")) = 2

\* C14: the depth-stencil state an Actor creates for its shadow pass, and
\* binds during it, has the depth test enabled and depth writes disabled.
C14_ShadowDepthStateNoDepthWrite ==
    /\ fShadowDSS(Martis) \in DOMAIN world.desc =>
          /\ world.desc[fShadowDSS(Martis)].DepthEnable
          /\ world.desc[fShadowDSS(Martis)].DepthWriteMask = D3D11_DEPTH_WRITE_MASK_ZERO
    /\ \A i \in Positions(renLog, "OMSetDepthStencilState") :
          /\ world.desc[renLog[i].site].DepthEnable
          /\ world.desc[renLog[i].site].DepthWriteMask = D3D11_DEPTH_WRITE_MASK_ZERO

\* C20: after any sequence of setMesh calls the actor holds one vertex buffer
\* and one index buffer per mesh, at the index of the mesh.
C20_OneBufferPairPerMesh ==
    unit.op = "Actor::setMesh" =>
        /\ world.actors[Martis].nVB = Len(world.actors[Martis].meshes)
        /\ world.actors[Martis].nIB = Len(world.actors[Martis].meshes)
        /\ \A i \in 1..Len(world.actors[Martis].meshes) :
              /\ Get(world, fVB(Martis, i)) # Null
              /\ Get(world, fIB(Martis, i)) # Null

\* C13: for a light with Ly > 0 the shadow matrix S maps every point
\* (x, 0, z, 1) to itself under the row-vector convention.
C13_GroundPointsAreFixed ==
    (unit.op = "Actor::renderShadow" /\ unit.L[2] > 0 /\ unit.p[2] = 0 /\ unit.p[4] = 1) =>
        unit.out = [j \in 1..4 |-> ShadowScale * unit.p[j]]

\* C15: SwapChain::init tries the driver types hardware, WARP, reference in
\* this order, each attempt offering the feature levels 11.0, 10.1, 10.0; it
\* stops at the first success, returns the last attempt's status when all
\* three fail and only then, and creates no swap chain without a device.
C15_DriverTypeFallback ==
    /\ \A i \in Positions(world.log, "D3D11CreateDevice") :
          /\ Rank(world.log, "D3D11CreateDevice", i) <= 3
          /\ world.log[i].driver =
                <<"HARDWARE", "WARP", "REFERENCE">>[Rank(world.log, "D3D11CreateDevice", i)]
          /\ world.log[i].levels = <<"11_0", "10_1", "10_0">>
          /\ \A j \in Positions(world.log, "D3D11CreateDevice") :
                j < i => FAILED(world.log[j].hr)
          /\ i < Len(world.log)
          /\ (FAILED(world.log[i].hr) /\ Rank(world.log, "D3D11CreateDevice", i) < 3)
                => world.log[i + 1].op = "D3D11CreateDevice"
          /\ (FAILED(world.log[i].hr) /\ Rank(world.log, "D3D11CreateDevice", i) = 3)
                => /\ world.log[i + 1].op = "initStep"
                   /\ world.log[i + 1].hr = world.log[i].hr
                   /\ initHr = world.log[i].hr
          /\ SUCCEEDED(world.log[i].hr)
                => /\ world.log[i + 1].op \in {"create", "createFail"}
                   /\ world.log[i + 1].site = fDxgiDevice
    /\ \A j \in 1..Len(world.log) :
          (world.log[j].op \in {"create", "createFail"} /\ world.log[j].site = fSwapChain)
              => \E i \in 1..(j - 1) :
                    world.log[i].op = "D3D11CreateDevice" /\ SUCCEEDED(world.log[i].hr)

\* hardware and WARP failed, the reference driver gave the device, and the
\* swap chain was created on it
C15_Witness ==
    /\ Cardinality(Positions(world.log, "D3D11CreateDevice")) = 3
    /\ \E i \in Positions(world.log, "D3D11CreateDevice") :
          world.log[i].driver = "REFERENCE" /\ SUCCEEDED(world.log[i].hr)
    /\ HasEvent(world.log, "create")
    /\ \E j \in 1..Len(world.log) : world.log[j].op = "create" /\ world.log[j].site = fSwapChain

\* the side of the directed line a -> b on which c lies, in the plane z = const
Turn(a, b, c) == CrossV3(VSub(b, a), VSub(c, a))[3]
Sign(n) == IF n > 0 THEN 1 ELSE IF n < 0 THEN -1 ELSE 0
Succ(v, i) == v[(i % Len(v)) + 1]
\* every vertex lies strictly on the side `s` of every edge it is not on
StrictlyConvex(v, s) ==
    \A i \in 1..Len(v) : \A k \in 1..Len(v) :
        (v[k] # v[i] /\ v[k] # Succ(v, i)) => Sign(Turn(v[i], Succ(v, i), v[k])) = s
Distinct(v) == \A i, k \in 1..Len(v) : i # k => v[i] # v[k]
\* the k-th triangle of an index list, as 1-based positions in the vertex list
Tri(oIndices, k) ==
    <<oIndices[3 * k - 2] + 1, oIndices[3 * k - 1] + 1, oIndices[3 * k] + 1>>

\* C16: for a convex N-gon with pairwise distinct positions, N in 4..6,
\* VertexTriangluation emits exactly N-2 triangles whose indices are in
\* [0, N), uses every vertex, emits no triangle twice, and keeps the winding
\* of the polygon in every triangle.
C16_ConvexPolygonTriangulation ==
    \A s \in {-1, 1} :
        (/\ unit.op = "VertexTriangluation"
         /\ Len(unit.iVerts) \in 4..6
         /\ Distinct(unit.iVerts)
         /\ StrictlyConvex(unit.iVerts, s))
        => /\ unit.returns
           /\ Len(unit.oIndices) = 3 * (Len(unit.iVerts) - 2)
           /\ \A k \in 1..Len(unit.oIndices) : unit.oIndices[k] \in 0..(Len(unit.iVerts) - 1)
           /\ \A j \in 0..(Len(unit.iVerts) - 1) :
                 \E k \in 1..Len(unit.oIndices) : unit.oIndices[k] = j
           /\ \A k, m \in 1..(Len(unit.iVerts) - 2) :
                 k # m => { Tri(unit.oIndices, k)[n] : n \in 1..3 }
                            # { Tri(unit.oIndices, m)[n] : n \in 1..3 }
           /\ \A k \in 1..(Len(unit.iVerts) - 2) :
                 Sign(Turn(unit.iVerts[Tri(unit.oIndices, k)[1]],
                           unit.iVerts[Tri(unit.oIndices, k)[2]],
                           unit.iVerts[Tri(unit.oIndices, k)[3]])) = s

\* a clockwise hexagon in a plane through the origin has been triangulated
C16_Witness ==
    /\ unit.op = "VertexTriangluation"
    /\ Len(unit.iVerts) = 6
    /\ unit.iVerts[1][3] = 0
    /\ Distinct(unit.iVerts)
    /\ StrictlyConvex(unit.iVerts, -1)
    /\ Len(unit.oIndices) = 12

\* what a face line refers to, read off the line itself
PosRefs == (-5..-1) \cup (1..5)
IsP(tok) == \E p \in PosRefs : tok = TokP(p)
RefP(tok) == CHOOSE p \in PosRefs : tok = TokP(p)
IsPTN(tok) == \E p, t, n \in 1..5 : tok = TokPTN(p, t, n)
RefPTN(tok) == CHOOSE r \in (1..5) \X (1..5) \X (1..5) : tok = TokPTN(r[1], r[2], r[3])
\* the element an OBJ reference denotes in a list
Referred(list, ref) == IF ref < 0 THEN list[Len(list) + ref + 1] ELSE list[ref]
\* the vertices the last face line added
FaceVertex(i) == unit.ld.LoadedVertices[Len(unit.before.LoadedVertices) + i]

\* C17: a face line of three position/UV/normal vertices adds exactly three
\* vertices, with the file's own normals, and the indices 0, 1, 2 offset by
\* the vertices loaded before; a face line of position-only vertices gives
\* every vertex of the face the cross product of its first three positions.
C17_FaceLineVerticesAndNormals ==
    unit.op = "f" =>
        /\ (Len(unit.line.sface) = 3 /\ \A i \in 1..3 : IsPTN(unit.line.sface[i]))
             => /\ Len(unit.ld.LoadedVertices) = Len(unit.before.LoadedVertices) + 3
                /\ Len(unit.ld.Vertices) = Len(unit.before.Vertices) + 3
                /\ unit.ld.LoadedIndices =
                     unit.before.LoadedIndices
                       \o <<Len(unit.before.LoadedVertices), Len(unit.before.LoadedVertices) + 1,
                            Len(unit.before.LoadedVertices) + 2>>
                /\ unit.ld.Indices =
                     unit.before.Indices
                       \o <<Len(unit.before.Vertices), Len(unit.before.Vertices) + 1,
                            Len(unit.before.Vertices) + 2>>
                /\ \A i \in 1..3 :
                      /\ FaceVertex(i).Position =
                           unit.ld.Positions[RefPTN(unit.line.sface[i])[1]]
                      /\ FaceVertex(i).TextureCoordinate =
                           unit.ld.TCoords[RefPTN(unit.line.sface[i])[2]]
                      /\ FaceVertex(i).Normal =
                           unit.ld.Normals[RefPTN(unit.line.sface[i])[3]]
        /\ (\A i \in 1..Len(unit.line.sface) : IsP(unit.line.sface[i]))
             => /\ Len(unit.ld.LoadedVertices) =
                     Len(unit.before.LoadedVertices) + Len(unit.line.sface)
                /\ \A i \in 1..Len(unit.line.sface) :
                      /\ FaceVertex(i).Position =
                           Referred(unit.ld.Positions, RefP(unit.line.sface[i]))
                      /\ FaceVertex(i).Normal =
                           CrossV3(VSub(Referred(unit.ld.Positions, RefP(unit.line.sface[1])),
                                        Referred(unit.ld.Positions, RefP(unit.line.sface[2]))),
                                   VSub(Referred(unit.ld.Positions, RefP(unit.line.sface[3])),
                                        Referred(unit.ld.Positions, RefP(unit.line.sface[2]))))

\* a full-index triangle read after a position-only quad and a new object
C17_Witness ==
    /\ unit.op = "f"
    /\ \A i \in 1..3 : IsPTN(unit.line.sface[i])
    /\ Len(unit.before.LoadedVertices) = 4
    /\ Len(unit.before.Vertices) = 0
    /\ \A i \in 1..4 : unit.before.LoadedVertices[i].Normal # <<0, 0, 0>>

\* every attempt of owner o's fallback chain was made and failed
ChainExhausted(log, o, chain) ==
    /\ Cardinality(Attempts(log, o)) = Len(chain)
    /\ \A i \in Attempts(log, o) : FAILED(log[i].hr)

\* C18: when every attempt of an actor's texture fallback chain fails,
\* BaseApp::init still adds the actor, still runs the steps that remain (the
\* floor actor, the ImGui layer) and returns S_OK.
C18_TextureFailureIsSoft ==
    (ChainExhausted(world.log, Martis, MartisChain) \/ ChainExhausted(world.log, 0, PlaneChain))
    => /\ SUCCEEDED(initHr)
       /\ \A i \in Positions(world.log, "initStep") : SUCCEEDED(world.log[i].hr)
       /\ HasEvent(world.log, "ImGuiInit")
       /\ \A i \in Attempts(world.log, Martis) \cup Attempts(world.log, 0) :
             i < IndexOf(world.log, "ImGuiInit")
       /\ ~HasEvent(world.log, "BaseApp::destroy") => world.m_actors = <<Martis, Plane>>
       /\ ChainExhausted(world.log, Martis, MartisChain) => HasEvent(world.log, "ERROR")

\* no texture file at all: both chains were exhausted and the scene runs
C18_Witness ==
    /\ ChainExhausted(world.log, Martis, MartisChain)
    /\ ChainExhausted(world.log, 0, PlaneChain)
    /\ pc = "loop"
    /\ world.m_actors = <<Martis, Plane>>

\* C19: UserInterface::init runs only after every other step of
\* BaseApp::init has completed, so whenever ImGui is initialized the window
\* handle, the device and the device context it was given are non-null.
C19_ImGuiInitializedLast ==
    /\ \A i \in Positions(world.log, "ImGuiInit") :
          /\ \A k \in 1..Len(StepNames) :
                \E j \in 1..(i - 1) :
                    /\ world.log[j].op = "initStep"
                    /\ world.log[j].site[2] = StepNames[k]
                    /\ SUCCEEDED(world.log[j].hr)
          /\ \A j \in (i + 1)..Len(world.log) : world.log[j].op \notin InitOps
          /\ Cardinality(Attempts(world.log, 0)) >= 1
          /\ \A j \in Attempts(world.log, 0) : j < i
    /\ world.ui.m_imguiInitialized =>
          /\ Cardinality(Positions(world.log, "ImGuiInit")) = 1
          /\ \A i \in Positions(world.log, "ImGuiInit") :
                /\ world.log[i].window
                /\ world.log[i].device # Null
                /\ world.log[i].deviceContext # Null
                /\ world.log[i].device = Get(world, fDevice)
                /\ world.log[i].deviceContext = Get(world, fContext)

\* frames are being rendered with the ImGui layer up
C19_Witness ==
    /\ world.ui.m_imguiInitialized
    /\ frames > 0
    /\ HasEvent(world.log, "ImGuiInit")
    /\ Get(world, fDevice) # Null

\* the constant buffer bound at vertex-shader slot 2 when event i executes
LastBind(log, i, slot) ==
    { j \in 1..(i - 1) : /\ log[j].op = "VSSetConstantBuffers" /\ log[j].slot = slot
                         /\ \A k \in (j + 1)..(i - 1) :
                                ~(log[k].op = "VSSetConstantBuffers" /\ log[k].slot = slot) }
OpaqueDraws(log) == { i \in Positions(log, "DrawIndexed") : log[i].site[2] = "opaque" }
AfterRender == pc \in {"loop", "crashed"} /\ unit.op = "BaseApp::update" /\ renLog # << >>

\* C21: at every render, each opaque draw of an actor reads, at slot 2, that
\* actor's model constant buffer, and the buffer holds the (transposed)
\* scale * rotation * translation matrix of the actor's transform as the
\* preceding update left it, inspector edits of that update included.
C21_DrawnWorldMatrixIsCurrent ==
    AfterRender =>
        \A i \in OpaqueDraws(renLog) :
            /\ \A j \in LastBind(renLog, i, 2) :
                   renLog[j].site = Get(world, fModelBuffer(renLog[i].site[1]))
            /\ LastBind(renLog, i, 2) # {}
            /\ unit.cb[renLog[i].site[1]]
                   = XMMatrixTranspose(ComposeSRT(unit.t[renLog[i].site[1]]))
C21_Witness ==
    /\ AfterRender
    /\ unit.edited = Martis
    /\ unit.edit.field = "rotation"
    /\ \E i \in OpaqueDraws(renLog) : renLog[i].site[1] = Martis
    /\ unit.cb[Martis] # XMMatrixTranspose(ComposeSRT(SceneTransforms[Martis]))

\* the arguments the claim calls invalid: a null pointer where the native
\* call needs an object (optional pointers: class instances, the destination
\* box, the blend factor; of the two targets of OMSetRenderTargets one may be
\* absent, the views only when NumViews is 0), a zero index count, the
\* undefined topology, clear flags with neither bit
NullAt(c, idx) == \E k \in idx : c.p[k] = Null
InvalidArguments(c) ==
    \/ c.fn \in {"RSSetViewports", "PSSetShaderResources", "IASetInputLayout", "VSSetShader",
                 "PSSetShader", "IASetIndexBuffer", "PSSetSamplers", "RSSetState",
                 "OMSetBlendState", "VSSetConstantBuffers", "PSSetConstantBuffers"}
       /\ NullAt(c, {1})
    \/ c.fn = "UpdateSubresource" /\ NullAt(c, {1, 3})
    \/ c.fn = "IASetVertexBuffers" /\ NullAt(c, {1, 2, 3})
    \/ c.fn = "ClearRenderTargetView" /\ NullAt(c, {1, 2})
    \/ c.fn = "OMSetRenderTargets" /\ (c.p = <<Null, Null>> \/ (c.p[1] = Null /\ c.n[1] # 0))
    \/ c.fn = "DrawIndexed" /\ c.n[1] = 0
    \/ c.fn = "IASetPrimitiveTopology" /\ c.n[1] = 0
    \/ c.fn = "ClearDepthStencilView" /\ (NullAt(c, {1}) \/ c.n[1] \notin {1, 2, 3})
Called == unit.op = "DeviceContext" /\ unit.last # Unset
PipelineSetBy(seq) ==
    [f \in StateSetters |->
        IF \E i \in 1..Len(seq) : seq[i].fn = f
        THEN seq[CHOOSE i \in 1..Len(seq) :
                     seq[i].fn = f /\ \A j \in (i + 1)..Len(seq) : seq[j].fn # f]
        ELSE Unset]

\* C22: an entry point called with invalid arguments logs an error, forwards
\* nothing and leaves the pipeline state as it was; called with valid
\* arguments it forwards one native call carrying the arguments it received.
C22_GuardedForwarding ==
    Called =>
        /\ Len(unit.native) + Len(unit.errors) = unit.count
        /\ unit.pipeline = PipelineSetBy(unit.native)
        /\ IF InvalidArguments(unit.last)
           THEN /\ ~unit.forwarded
                /\ unit.errors # << >> /\ unit.errors[Len(unit.errors)] = unit.last.fn
                /\ unit.pipeline = unit.before
           ELSE /\ unit.forwarded
                /\ unit.native # << >> /\ unit.native[Len(unit.native)] = unit.last
                /\ \A f \in StateSetters \ {unit.last.fn} : unit.pipeline[f] = unit.before[f]
C22_Witness ==
    /\ Called
    /\ Len(unit.native) = 1 /\ Len(unit.errors) = 1
    /\ unit.native[1].fn = "OMSetRenderTargets" /\ unit.native[1].p[1] = Null
    /\ unit.last.fn = "ClearDepthStencilView" /\ unit.last.n[1] = 4 /\ unit.last.p[1] # Null

QuitReturned ==
    /\ pc = "done"
    /\ msg = "WM_QUIT"
    /\ retVal = 0
    /\ Count(calls, "destroy") = 1

\* C23: once WndProc has handled WM_DESTROY (PostQuitMessage(0) is pending),
\* the loop of run() eventually retrieves WM_QUIT; from then on it calls
\* neither update nor render, it calls destroy once and returns wParam = 0.
C23_QuitLeadsToDestroyAndReturn ==
    /\ quitPosted ~> QuitReturned
    /\ [][msg = "WM_QUIT" => calls' \in {calls, Append(calls, "destroy")}]_vars
    /\ [](msg = "WM_QUIT" => Count(calls, "destroy") <= 1)
C23_Witness ==
    /\ QuitReturned
    /\ Count(calls, "update") > 0
    /\ Count(calls, "render") > 0
    /\ ~window.hWnd

Terminated == pc \in {"done", "exited"}
InitSucceeded == Count(calls, "init") = 1 /\ SUCCEEDED(initHr)

\* C24: every termination of the application after a successful init, by
\* closing the window or by confirming the 'Exit?' popup, has passed through
\* BaseApp::destroy.
C24_TerminationPassesThroughDestroy ==
    (Terminated /\ InitSucceeded) =>
        /\ Count(calls, "destroy") = 1
        /\ \E i \in Positions(world.log, "BaseApp::destroy") : TRUE

ShadowDSSs == { Get(world, fShadowDSS(a)) : a \in {Martis, Plane} } \ {Null}

\* C25: every opaque-pass DrawIndexed of Actor::render executes with the
\* pixel shader of the main shader program bound and with no actor's shadow
\* depth-stencil state bound, whatever shadow passes ran before it in this
\* frame or in an earlier one.
C25_OpaqueDrawUsesMainPipeline ==
    (unit.op = "BaseApp::render" /\ pc \in {"loop", "crashed"}) =>
        \A i \in OpaqueDraws(renLog) :
            /\ BoundAt(renLog, i, "PSSetShader", unit.ps0) = Get(world, fPS(0))
            /\ BoundAt(renLog, i, "OMSetDepthStencilState", unit.dss0) \notin ShadowDSSs

ShadowPassEvents(log) ==
    { i \in 1..Len(log) :
        \/ log[i].op = "OMSetDepthStencilState"
        \/ log[i].op = "DrawIndexed" /\ log[i].site[2] = "shadow"
        \/ \E a \in {Martis, Plane} :
              log[i].site \in {fShaderBuffer(a), Get(world, fShaderBuffer(a)),
                               Get(world, fPS(a)), Get(world, fShadowBlend(a))} \ {Null} }

\* C26: in the scene built by BaseApp::init every actor of the actor list has
\* castShadow false in every reachable state, and no frame executes
\* Actor::renderShadow: a frame sets the topology once per actor and makes no
\* call of the shadow pass.
C26_SceneCastsNoShadow ==
    /\ \A i \in 1..Len(world.m_actors) : ~world.actors[world.m_actors[i]].castShadow
    /\ ShadowPassEvents(renLog) = {}
    /\ pc \in {"loop", "crashed"} =>
          Cardinality(Positions(renLog, "IASetPrimitiveTopology")) <= Len(world.m_actors)
C26_Witness ==
    /\ pc = "loop"
    /\ Len(world.m_actors) = 2
    /\ \E i \in OpaqueDraws(renLog) : renLog[i].site[1] = Martis
    /\ \E i \in OpaqueDraws(renLog) : renLog[i].site[1] = Plane
    /\ Cardinality(Positions(renLog, "IASetPrimitiveTopology")) = 2

Shutdowns(log) == Positions(log, "ImGuiShutdown")
\* the ImGui initialization that a shutdown at position i ends
InitEndedBy(log, i) ==
    { j \in Positions(log, "ImGuiInit") :
        j < i /\ \A k \in Shutdowns(log) : ~(j < k /\ k < i) }

\* C27: an ImGui shutdown happens only after a completed UserInterface::init
\* and once per init: a destroy on an interface that is not initialized
\* shuts nothing down, and after a failed BaseApp::init no destroy, of the
\* interface or of the application, makes a shutdown call.
C27_ShutdownOncePerInit ==
    /\ \A i \in Shutdowns(world.log) : InitEndedBy(world.log, i) # {}
    /\ unit.op \in {"UserInterface::destroy", "BaseApp::destroy"} =>
          Cardinality(Shutdowns(world.log))
              = unit.shutdownsBefore + (IF unit.initializedBefore THEN 1 ELSE 0)
    /\ (unit.op # "none" /\ FAILED(unit.initHr) /\ unit.inits = 0) =>
          Shutdowns(world.log) = {}
C27_Witness ==
    /\ unit.op = "UserInterface::destroy"
    /\ SUCCEEDED(unit.initHr)
    /\ unit.inits = 0
    /\ ~unit.initializedBefore
    /\ Cardinality(Shutdowns(world.log)) = 1
C27_WitnessFailedInit ==
    /\ unit.op = "BaseApp::destroy"
    /\ FAILED(unit.initHr)
    /\ unit.inits = 0

InspectorCalls == Positions(updLog, "inspectorGeneral")

\* C28: every call of inspectorGeneral made by BaseApp::update passes the
\* actor at an index within [0, number of actors), whatever the index was
\* before the first frame and whatever the outliner selected in earlier
\* frames; with an empty actor list the inspector is not called.
C28_InspectorIndexInRange ==
    /\ \A i \in InspectorCalls :
          /\ updLog[i].slot >= 0
          /\ updLog[i].slot < Len(world.m_actors)
          /\ updLog[i].site = <<world.m_actors[updLog[i].slot + 1], "", 0>>
    /\ world.m_actors = << >> => InspectorCalls = {}
    /\ (pc = "updated" /\ world.m_actors # << >>) => Cardinality(InspectorCalls) = 1
C28_Witness ==
    /\ pc = "updated"
    /\ frames = 1
    /\ unit.index0 = 7
    /\ Len(world.m_actors) = 2
    /\ \E i \in InspectorCalls : updLog[i].slot = 0
C28_WitnessEmptyList ==
    /\ pc = "updated"
    /\ world.m_actors = << >>
    /\ unit.index0 = -1

\* C29: VertexTriangluation returns for every vertex list: no pass of its
\* while (true) loop leaves both the remaining vertices and the emitted
\* indices as they were with neither of them empty.
C29_TriangulationTerminates ==
    unit.op = "VertexTriangluation" => unit.returns

\* C30: an update during which the UI captures the mouse leaves the camera's
\* yaw, pitch, distance and target as they were, whatever the cursor
\* position, the wheel value and the buttons of that frame.
C30_CaptureFreezesCamera ==
    (unit.op = "BaseApp::update" /\ unit.in.capture /\ pc = "updated") =>
        /\ cam.yaw4 = unit.before.yaw4
        /\ cam.pitch4 = unit.before.pitch4
        /\ cam.dist = unit.before.dist
        /\ cam.target = unit.before.target
C30_Witness ==
    /\ unit.op = "BaseApp::update" /\ pc = "updated"
    /\ unit.in.capture /\ unit.in.rmb /\ unit.in.mmb /\ unit.in.wheel # 0
    /\ unit.before.orbitando
    /\ CameraOrbit(unit.before, unit.in).yaw4 # unit.before.yaw4
    /\ CameraOrbit(unit.before, unit.in).pitch4 # unit.before.pitch4
    /\ CameraZoom(unit.before, unit.in).dist # unit.before.dist
    /\ unit.before.dist # NewCamera.dist
    /\ cam = unit.before

====
